---- MODULE Spec2Model ----
(***************************************************************************)
(* Model of the harel SCXML front end (src/src/lib.rs): the grammar parser *)
(* over a generic element tree, the validator and the serializer.          *)
(*                                                                         *)
(* Text is a sequence of one-character strings, so that splitting on       *)
(* whitespace and the serializer's unescaped interpolation are computed.   *)
(* Option<T> is a sequence of length at most one: None == <<>>.            *)
(***************************************************************************)
EXTENDS Integers, Sequences, FiniteSets, TLC

VARIABLES xml, opts, pc, pres, vres, out, rres

vars == <<xml, opts, pc, pres, vres, out, rres>>

(* ------------------------------ bounds --------------------------------- *)

MaxNodes == 3

(* ------------------------------ text ----------------------------------- *)

None == <<>>

Some(x) == <<x>>

SP == " "

QUOTE == "\""

SCXML_NS == "http://www.w3.org/2005/07/scxml"

OTHER_NS == "urn:example:other"

V10 == <<"1", ".", "0">>

V20 == <<"2", ".", "0">>

sA == <<"a">>

sB == <<"b">>

sC == <<"c">>

Contains(s, ch) == \E i \in 1..Len(s) : s[i] = ch

RECURSIVE split_whitespace(_)
split_whitespace(s) ==
  IF s = <<>> THEN <<>>
  ELSE IF Head(s) = SP THEN split_whitespace(Tail(s))
  ELSE LET rest == split_whitespace(Tail(s))
       IN IF Len(s) > 1 /\ s[2] # SP
          THEN <<(<<Head(s)>> \o Head(rest))>> \o Tail(rest)
          ELSE <<(<<Head(s)>>)>> \o rest

(* --------------------------- element tree ------------------------------ *)

NoAttrs == [n \in {} |-> <<>>]

Elem(tag, attrs) == [tag |-> tag, attrs |-> attrs, children |-> <<>>, text |-> None]

attribute(node, name) ==
  IF name \in DOMAIN node.attrs THEN Some(node.attrs[name]) ELSE None

unwrap_or(o, d) == IF o = None THEN d ELSE o[1]

(* ------------------------------ results -------------------------------- *)

Ok(v) == [ok |-> TRUE, val |-> v, err |-> <<>>]

Err(kind, what) == [ok |-> FALSE, val |-> <<>>, err |-> <<kind, what>>]

(* --------------------------- grammar parser ---------------------------- *)
(* A Result is consumed by an operator that takes it as a parameter: and_then  *)
(* style, like the ? operator of the source.                                   *)

RECURSIVE parse_single_executable(_)
RECURSIVE parse_executables_from(_, _, _)
RECURSIVE parse_if_children(_, _, _, _, _)
RECURSIVE parse_state_like_child(_)
RECURSIVE parse_state_children(_, _, _)
RECURSIVE parse_parallel_children(_, _, _)

(* execs.push(parse_single_executable(&child)?) and the rest of the loop *)
push_executable(ch, i, execs, r) ==
  IF r.ok THEN parse_executables_from(ch, i + 1, Append(execs, r.val)) ELSE r

(* the loop of parse_executables: every element child, in order, first error aborts *)
parse_executables_from(ch, i, execs) ==
  IF i > Len(ch) THEN Ok(execs)
  ELSE push_executable(ch, i, execs, parse_single_executable(ch[i]))

parse_executables(node) == parse_executables_from(node.children, 1, <<>>)

(* mutant: in_else is not consulted, every sub-executable goes to then *)
push_branch_always_then(ch, i, in_else, then, else_, r) ==
  IF ~r.ok THEN r
  ELSE parse_if_children(ch, i + 1, in_else, Append(then, r.val), else_)

(* then.push(sub_exec) or else_.push(sub_exec), by in_else, and the rest of the loop *)
push_branch(ch, i, in_else, then, else_, r) ==
  IF ~r.ok THEN r
  ELSE IF in_else THEN parse_if_children(ch, i + 1, in_else, then, Append(else_, r.val))
  ELSE parse_if_children(ch, i + 1, in_else, Append(then, r.val), else_)

(* the loop of the "if" arm: in_else flips at an <else>, which is skipped *)
parse_if_children(ch, i, in_else, then, else_) ==
  IF i > Len(ch) THEN Ok([then |-> then, else_ |-> else_])
  ELSE IF ch[i].tag = "else" THEN parse_if_children(ch, i + 1, TRUE, then, else_)
  ELSE push_branch(ch, i, in_else, then, else_, parse_single_executable(ch[i]))

make_if(node, r) ==
  IF r.ok
  THEN Ok([kind |-> "If", cond |-> unwrap_or(attribute(node, "cond"), <<>>),
           then |-> r.val.then, else_ |-> r.val.else_])
  ELSE r

(* mutant: a <foreach> without array is an error *)
make_foreach_array_required(node, r) ==
  IF ~r.ok THEN r
  ELSE IF attribute(node, "array") = None THEN Err("MissingAttribute", "array")
  ELSE Ok([kind |-> "Foreach", array |-> attribute(node, "array")[1],
           item |-> unwrap_or(attribute(node, "item"), <<>>),
           index |-> attribute(node, "index"), body |-> r.val])

make_foreach(node, r) ==
  IF r.ok
  THEN Ok([kind |-> "Foreach", array |-> unwrap_or(attribute(node, "array"), <<>>),
           item |-> unwrap_or(attribute(node, "item"), <<>>),
           index |-> attribute(node, "index"), body |-> r.val])
  ELSE r

parse_single_executable(node) ==
  CASE node.tag = "raise" ->
         Ok([kind |-> "Raise", event |-> unwrap_or(attribute(node, "event"), <<>>)])
    [] node.tag = "if" -> make_if(node, parse_if_children(node.children, 1, FALSE, <<>>, <<>>))
    [] node.tag = "foreach" -> make_foreach(node, parse_executables(node))
    [] node.tag = "send" ->
         Ok([kind |-> "Send", event |-> unwrap_or(attribute(node, "event"), <<>>),
             target |-> attribute(node, "target")])
    [] node.tag = "script" ->
         Ok([kind |-> "Script", src |-> attribute(node, "src"), content |-> node.text])
    [] node.tag = "assign" ->
         Ok([kind |-> "Assign", location |-> unwrap_or(attribute(node, "location"), <<>>),
             expr |-> unwrap_or(attribute(node, "expr"), <<>>)])
    [] node.tag = "log" ->
         Ok([kind |-> "Log", label |-> attribute(node, "label"),
             expr |-> unwrap_or(attribute(node, "expr"), <<>>)])
    [] node.tag = "cancel" ->
         Ok([kind |-> "Cancel", sendid |-> unwrap_or(attribute(node, "sendid"), <<>>)])
    [] OTHER -> Ok([kind |-> "Other", name |-> node.tag])

make_transition(node, r) ==
  IF r.ok
  THEN Ok([event |-> attribute(node, "event"), cond |-> attribute(node, "cond"),
           target |-> attribute(node, "target"), type_ |-> attribute(node, "type"),
           executables |-> r.val])
  ELSE r

parse_transition(node) == make_transition(node, parse_executables(node))

(* index of the first <transition> child, 0 when there is none *)
first_transition(ch) ==
  IF \E i \in 1..Len(ch) : ch[i].tag = "transition"
  THEN CHOOSE i \in 1..Len(ch) :
         ch[i].tag = "transition" /\ \A j \in 1..(i - 1) : ch[j].tag # "transition"
  ELSE 0

wrap_some(r) == IF r.ok THEN Ok(Some(r.val)) ELSE r

parse_first_transition(node) ==
  IF first_transition(node.children) = 0 THEN Ok(None)
  ELSE wrap_some(parse_transition(node.children[first_transition(node.children)]))

make_initial(node, r) ==
  IF ~r.ok THEN r
  ELSE IF r.val = None THEN Err("InvalidStructure", "Initial must have a transition")
  ELSE Ok([id |-> attribute(node, "id"), transition |-> r.val[1]])

parse_initial(node) == make_initial(node, parse_first_transition(node))

make_history(node, r) ==
  IF ~r.ok THEN r
  ELSE Ok([kind |-> "History", id |-> attribute(node, "id"),
           type_ |-> unwrap_or(attribute(node, "type"), <<"s", "h", "a", "l", "l", "o", "w">>),
           transition |-> r.val])

parse_history(node) == make_history(node, parse_first_transition(node))

(* mutant: a missing name is read as the empty text *)
parse_param_name_defaulted(node) ==
  Ok([name |-> unwrap_or(attribute(node, "name"), <<>>), expr |-> attribute(node, "expr"),
      location |-> attribute(node, "location")])

parse_param(node) ==
  IF attribute(node, "name") = None THEN Err("MissingAttribute", "param name")
  ELSE Ok([name |-> attribute(node, "name")[1], expr |-> attribute(node, "expr"),
           location |-> attribute(node, "location")])

make_finalize(r) == IF r.ok THEN Ok([executables |-> r.val]) ELSE r

parse_finalize(node) == make_finalize(parse_executables(node))

parse_content(node) == Ok([expr |-> attribute(node, "expr"), content |-> node.text])

(* one arm of a child loop: the parsed child, per tag; Ok(<<>>) for an ignored tag *)
parse_invoke_child(c) ==
  CASE c.tag = "param" -> parse_param(c)
    [] c.tag = "finalize" -> parse_finalize(c)
    [] c.tag = "content" -> parse_content(c)
    [] OTHER -> Ok(<<>>)

RECURSIVE parse_invoke_children(_, _, _)
store_invoke_child(ch, i, acc, r) ==
  IF ~r.ok THEN r
  ELSE parse_invoke_children(ch, i + 1,
         CASE ch[i].tag = "param" -> [acc EXCEPT !.params = Append(@, r.val)]
           [] ch[i].tag = "finalize" -> [acc EXCEPT !.finalize = Some(r.val)]
           [] ch[i].tag = "content" -> [acc EXCEPT !.content = Some(r.val)]
           [] OTHER -> acc)

parse_invoke_children(ch, i, acc) ==
  IF i > Len(ch) THEN Ok(acc) ELSE store_invoke_child(ch, i, acc, parse_invoke_child(ch[i]))

parse_invoke(node) ==
  parse_invoke_children(node.children, 1,
    [type_ |-> unwrap_or(attribute(node, "type"), <<>>), src |-> attribute(node, "src"),
     id |-> attribute(node, "id"), params |-> <<>>, finalize |-> None, content |-> None])

IsStateLikeTag(t) == t \in {"state", "parallel", "final", "history"}

(* mutant: a transition is put in front of those parsed before it *)
store_child_transition_first(acc, tag, val) ==
  CASE tag = "initial" -> [acc EXCEPT !.initial_element = Some(val)]
    [] tag = "transition" -> [acc EXCEPT !.transitions = <<val>> \o @]
    [] tag = "onentry" -> [acc EXCEPT !.onentry = @ \o val]
    [] tag = "onexit" -> [acc EXCEPT !.onexit = @ \o val]
    [] IsStateLikeTag(tag) -> [acc EXCEPT !.children = Append(@, val)]
    [] tag = "invoke" -> [acc EXCEPT !.invokes = Append(@, val)]

(* the field a parsed child of a state, parallel or final goes to *)
store_child(acc, tag, val) ==
  CASE tag = "initial" -> [acc EXCEPT !.initial_element = Some(val)]
    [] tag = "transition" -> [acc EXCEPT !.transitions = Append(@, val)]
    [] tag = "onentry" -> [acc EXCEPT !.onentry = @ \o val]
    [] tag = "onexit" -> [acc EXCEPT !.onexit = @ \o val]
    [] IsStateLikeTag(tag) -> [acc EXCEPT !.children = Append(@, val)]
    [] tag = "invoke" -> [acc EXCEPT !.invokes = Append(@, val)]

RECURSIVE parse_final_children(_, _, _)
store_final_child(ch, i, acc, r) ==
  IF ~r.ok THEN r ELSE parse_final_children(ch, i + 1, store_child(acc, ch[i].tag, r.val))

parse_final_children(ch, i, acc) ==
  IF i > Len(ch) THEN Ok(acc)
  ELSE IF ch[i].tag \in {"onentry", "onexit"}
  THEN store_final_child(ch, i, acc, parse_executables(ch[i]))
  ELSE parse_final_children(ch, i + 1, acc)

parse_final(node) ==
  parse_final_children(node.children, 1,
    [kind |-> "Final", id |-> attribute(node, "id"), onentry |-> <<>>, onexit |-> <<>>])

parse_state(node) ==
  parse_state_children(node.children, 1,
    [kind |-> "State", id |-> attribute(node, "id"), initial |-> attribute(node, "initial"),
     initial_element |-> None, transitions |-> <<>>, onentry |-> <<>>, onexit |-> <<>>,
     children |-> <<>>, invokes |-> <<>>])

parse_parallel(node) ==
  parse_parallel_children(node.children, 1,
    [kind |-> "Parallel", id |-> attribute(node, "id"), transitions |-> <<>>,
     onentry |-> <<>>, onexit |-> <<>>, children |-> <<>>, invokes |-> <<>>])

(* the four state-like arms of the child loops *)
parse_state_like_child(c) ==
  CASE c.tag = "state" -> parse_state(c)
    [] c.tag = "parallel" -> parse_parallel(c)
    [] c.tag = "final" -> parse_final(c)
    [] c.tag = "history" -> parse_history(c)

(* the arms parse_state and parse_parallel share *)
parse_common_child(c) ==
  CASE c.tag = "transition" -> parse_transition(c)
    [] c.tag \in {"onentry", "onexit"} -> parse_executables(c)
    [] IsStateLikeTag(c.tag) -> parse_state_like_child(c)
    [] c.tag = "invoke" -> parse_invoke(c)

CommonTags == {"transition", "onentry", "onexit", "state", "parallel", "final", "history", "invoke"}

store_state_child(ch, i, acc, r) ==
  IF ~r.ok THEN r ELSE parse_state_children(ch, i + 1, store_child(acc, ch[i].tag, r.val))

parse_state_children(ch, i, acc) ==
  IF i > Len(ch) THEN Ok(acc)
  ELSE IF ch[i].tag = "initial" THEN store_state_child(ch, i, acc, parse_initial(ch[i]))
  ELSE IF ch[i].tag \in CommonTags THEN store_state_child(ch, i, acc, parse_common_child(ch[i]))
  ELSE parse_state_children(ch, i + 1, acc)

store_parallel_child(ch, i, acc, r) ==
  IF ~r.ok THEN r ELSE parse_parallel_children(ch, i + 1, store_child(acc, ch[i].tag, r.val))

parse_parallel_children(ch, i, acc) ==
  IF i > Len(ch) THEN Ok(acc)
  ELSE IF ch[i].tag \in CommonTags
  THEN store_parallel_child(ch, i, acc, parse_common_child(ch[i]))
  ELSE parse_parallel_children(ch, i + 1, acc)

RECURSIVE parse_datamodel_from(_, _, _)
parse_datamodel_from(ch, i, data_elements) ==
  IF i > Len(ch) THEN Ok(data_elements)
  ELSE IF ch[i].tag # "data" THEN parse_datamodel_from(ch, i + 1, data_elements)
  ELSE IF attribute(ch[i], "id") = None THEN Err("MissingAttribute", "data id")
  ELSE parse_datamodel_from(ch, i + 1,
         Append(data_elements,
           [id |-> attribute(ch[i], "id")[1], expr |-> attribute(ch[i], "expr"),
            src |-> attribute(ch[i], "src"), content |-> ch[i].text]))

parse_datamodel(node) == parse_datamodel_from(node.children, 1, <<>>)

RECURSIVE parse_root_children(_, _, _)
store_root_child(ch, i, acc, r) ==
  IF ~r.ok THEN r
  ELSE parse_root_children(ch, i + 1,
         IF ch[i].tag = "datamodel" THEN [acc EXCEPT !.datamodel_elements = @ \o r.val]
         ELSE [acc EXCEPT !.states = Append(@, r.val)])

(* mutant: a child of the root with an unknown tag is an error *)
parse_root_children_known_only(ch, i, acc) ==
  IF i > Len(ch) THEN Ok(acc)
  ELSE IF IsStateLikeTag(ch[i].tag)
  THEN store_root_child(ch, i, acc, parse_state_like_child(ch[i]))
  ELSE IF ch[i].tag = "datamodel" THEN store_root_child(ch, i, acc, parse_datamodel(ch[i]))
  ELSE Err("InvalidStructure", "Unknown element")

parse_root_children(ch, i, acc) ==
  IF i > Len(ch) THEN Ok(acc)
  ELSE IF IsStateLikeTag(ch[i].tag)
  THEN store_root_child(ch, i, acc, parse_state_like_child(ch[i]))
  ELSE IF ch[i].tag = "datamodel" THEN store_root_child(ch, i, acc, parse_datamodel(ch[i]))
  ELSE parse_root_children(ch, i + 1, acc)

(* mutant: the namespace is checked whatever the options say *)
parse_scxml_always_strict(root, options) ==
  IF root.ns # Some(SCXML_NS) THEN Err("InvalidNamespace", SCXML_NS)
  ELSE IF root.tag # "scxml" THEN Err("InvalidStructure", "Root must be <scxml>")
  ELSE IF attribute(root, "version") = None THEN Err("MissingAttribute", "version")
  ELSE IF attribute(root, "version")[1] # V10
       THEN Err("InvalidStructure", "SCXML version must be 1.0")
  ELSE parse_root_children(root.children, 1,
         [version |-> attribute(root, "version")[1], initial |-> attribute(root, "initial"),
          datamodel |-> attribute(root, "datamodel"), states |-> <<>>,
          datamodel_elements |-> <<>>])

(* mutant: the root's name is checked before its namespace *)
parse_scxml_root_name_first(root, options) ==
  IF root.tag # "scxml" THEN Err("InvalidStructure", "Root must be <scxml>")
  ELSE IF ~options.relaxed_namespace /\ root.ns # Some(SCXML_NS)
  THEN Err("InvalidNamespace", SCXML_NS)
  ELSE IF attribute(root, "version") = None THEN Err("MissingAttribute", "version")
  ELSE IF attribute(root, "version")[1] # V10
       THEN Err("InvalidStructure", "SCXML version must be 1.0")
  ELSE parse_root_children(root.children, 1,
         [version |-> attribute(root, "version")[1], initial |-> attribute(root, "initial"),
          datamodel |-> attribute(root, "datamodel"), states |-> <<>>,
          datamodel_elements |-> <<>>])

(* mutant: the version is required but its value is not compared *)
parse_scxml_any_version(root, options) ==
  IF ~options.relaxed_namespace /\ root.ns # Some(SCXML_NS)
  THEN Err("InvalidNamespace", SCXML_NS)
  ELSE IF root.tag # "scxml" THEN Err("InvalidStructure", "Root must be <scxml>")
  ELSE IF attribute(root, "version") = None THEN Err("MissingAttribute", "version")
  ELSE parse_root_children(root.children, 1,
         [version |-> attribute(root, "version")[1], initial |-> attribute(root, "initial"),
          datamodel |-> attribute(root, "datamodel"), states |-> <<>>,
          datamodel_elements |-> <<>>])

(* parse_scxml_with_options after Document::parse: root is the root element *)
parse_scxml_with_options(root, options) ==
  IF ~options.relaxed_namespace /\ root.ns # Some(SCXML_NS)
  THEN Err("InvalidNamespace", SCXML_NS)
  ELSE IF root.tag # "scxml" THEN Err("InvalidStructure", "Root must be <scxml>")
  ELSE IF attribute(root, "version") = None THEN Err("MissingAttribute", "version")
  ELSE IF attribute(root, "version")[1] # V10
       THEN Err("InvalidStructure", "SCXML version must be 1.0")
  ELSE parse_root_children(root.children, 1,
         [version |-> attribute(root, "version")[1], initial |-> attribute(root, "initial"),
          datamodel |-> attribute(root, "datamodel"), states |-> <<>>,
          datamodel_elements |-> <<>>])

ParseOptions_default == [relaxed_namespace |-> FALSE]

parse_scxml(root) == parse_scxml_with_options(root, ParseOptions_default)

(* ------------------ the parser snapshot of blackjack.rs ------------------ *)
(* parse_executables of src/src/blackjack.rs. Every arm of its match pushes an *)
(* Executable, so the Result it returns is always Ok.                          *)

(* str::trim *)
RECURSIVE trim(_)
trim(s) ==
  IF s = <<>> THEN s
  ELSE IF Head(s) = SP THEN trim(Tail(s))
  ELSE IF s[Len(s)] = SP THEN trim(SubSeq(s, 1, Len(s) - 1))
  ELSE s

RECURSIVE blackjack_parse_executables(_)
RECURSIVE blackjack_if_branches(_, _, _, _, _)

(* then.extend(sub_execs) or else.extend(sub_execs), by in_else, and the rest of *)
(* the loop; sub_execs is parse_executables(&subchild)?                          *)
blackjack_extend_branch(ch, i, in_else, then, else_, sub_execs) ==
  IF in_else THEN blackjack_if_branches(ch, i + 1, in_else, then, else_ \o sub_execs.val)
  ELSE blackjack_if_branches(ch, i + 1, in_else, then \o sub_execs.val, else_)

(* the loop of the "if" arm over the subchildren *)
blackjack_if_branches(ch, i, in_else, then, else_) ==
  IF i > Len(ch) THEN [then |-> then, else_ |-> else_]
  ELSE IF ch[i].tag = "else" THEN blackjack_if_branches(ch, i + 1, TRUE, then, else_)
  ELSE blackjack_extend_branch(ch, i, in_else, then, else_, blackjack_parse_executables(ch[i]))

blackjack_make_if(child, b) ==
  [kind |-> "If", cond |-> unwrap_or(attribute(child, "cond"), <<>>),
   then |-> b.then, else_ |-> b.else_]

(* one arm of the match: the Executable pushed for child *)
blackjack_executable(child) ==
  CASE child.tag = "raise" ->
         [kind |-> "Raise", event |-> unwrap_or(attribute(child, "event"), <<>>)]
    [] child.tag = "if" ->
         blackjack_make_if(child, blackjack_if_branches(child.children, 1, FALSE, <<>>, <<>>))
    [] child.tag = "foreach" ->
         [kind |-> "Foreach", array |-> unwrap_or(attribute(child, "array"), <<>>),
          item |-> unwrap_or(attribute(child, "item"), <<>>),
          index |-> attribute(child, "index"),
          body |-> blackjack_parse_executables(child).val]
    [] child.tag = "send" ->
         [kind |-> "Send", event |-> unwrap_or(attribute(child, "event"), <<>>),
          target |-> attribute(child, "target")]
    [] child.tag = "script" ->
         [kind |-> "Script", src |-> attribute(child, "src"),
          content |-> IF child.text = None THEN None ELSE Some(trim(child.text[1]))]
    [] child.tag = "assign" ->
         [kind |-> "Assign", location |-> unwrap_or(attribute(child, "location"), <<>>),
          expr |-> unwrap_or(attribute(child, "expr"), <<>>)]
    [] child.tag = "log" ->
         [kind |-> "Log", label |-> attribute(child, "label"),
          expr |-> unwrap_or(attribute(child, "expr"), <<>>)]
    [] child.tag = "cancel" ->
         [kind |-> "Cancel", sendid |-> unwrap_or(attribute(child, "sendid"), <<>>)]
    [] OTHER -> [kind |-> "Other", name |-> child.tag]

blackjack_parse_executables(node) ==
  Ok([i \in 1..Len(node.children) |-> blackjack_executable(node.children[i])])

(* ------------------------------ validator ------------------------------ *)

VOk == [tag |-> "Ok", val |-> <<>>]

DuplicateId(id) == [tag |-> "DuplicateId", val |-> id]

InvalidTarget(id) == [tag |-> "InvalidTarget", val |-> id]

(* mutant: the result of HashSet::insert is ignored *)
insert_id_unchecked(id, acc) ==
  IF id = None THEN acc ELSE [acc EXCEPT !.all_ids = @ \cup {id[1]}]

(* HashSet::insert of an Option id: res stays Ok and the id joins all_ids, or the *)
(* id was already there and res is the error; acc is [res, all_ids]               *)
insert_id(id, acc) ==
  IF id = None THEN acc
  ELSE IF id[1] \in acc.all_ids THEN [acc EXCEPT !.res = DuplicateId(id[1])]
  ELSE [acc EXCEPT !.all_ids = @ \cup {id[1]}]

RECURSIVE collect_state_ids_from(_, _, _)
collect_state_ids_from(states, i, acc) ==
  IF i > Len(states) \/ acc.res # VOk THEN acc
  ELSE LET s == states[i]
           a1 == insert_id(s.id, acc)
       IN IF a1.res # VOk THEN a1
          ELSE IF s.kind \in {"State", "Parallel"}
          THEN collect_state_ids_from(states, i + 1, collect_state_ids_from(s.children, 1, a1))
          ELSE collect_state_ids_from(states, i + 1, a1)

(* mutant: the ids of the top-level elements only, without the recursion *)
collect_state_ids_top_level(states, all_ids) ==
  [res |-> VOk,
   all_ids |-> all_ids \cup {states[i].id[1] : i \in {k \in 1..Len(states) : states[k].id # None}}]

(* mutant: the ids of the <initial> and the <invoke> elements of a State or     *)
(* Parallel are inserted as well                                                *)
part_ids(s) ==
  (IF s.kind = "State" /\ s.initial_element # None THEN <<s.initial_element[1].id>> ELSE <<>>)
    \o [k \in 1..Len(s.invokes) |-> s.invokes[k].id]

RECURSIVE insert_ids(_, _)
insert_ids(ids, acc) ==
  IF ids = <<>> \/ acc.res # VOk THEN acc ELSE insert_ids(Tail(ids), insert_id(Head(ids), acc))

RECURSIVE collect_all_ids_from(_, _, _)
collect_all_ids_from(states, i, acc) ==
  IF i > Len(states) \/ acc.res # VOk THEN acc
  ELSE LET s == states[i]
           a1 == insert_id(s.id, acc)
       IN IF a1.res # VOk THEN a1
          ELSE IF s.kind \in {"State", "Parallel"}
          THEN collect_all_ids_from(states, i + 1,
                 collect_all_ids_from(s.children, 1, insert_ids(part_ids(s), a1)))
          ELSE collect_all_ids_from(states, i + 1, a1)

collect_state_ids_with_parts(states, all_ids) ==
  collect_all_ids_from(states, 1, [res |-> VOk, all_ids |-> all_ids])

collect_state_ids(states, all_ids) ==
  collect_state_ids_from(states, 1, [res |-> VOk, all_ids |-> all_ids])

(* mutant: only the first token of the target is looked up *)
first_unresolved_head_only(target, all_ids) ==
  IF target = None \/ split_whitespace(target[1]) = <<>> THEN None
  ELSE IF split_whitespace(target[1])[1] \notin all_ids
  THEN Some(split_whitespace(target[1])[1])
  ELSE None

(* mutant: a target without a token is looked up as it is *)
first_unresolved_blank_kept(target, all_ids) ==
  IF target = None THEN None
  ELSE IF split_whitespace(target[1]) = <<>>
  THEN (IF target[1] \in all_ids THEN None ELSE target)
  ELSE LET toks == split_whitespace(target[1])
       IN IF \E k \in 1..Len(toks) : toks[k] \notin all_ids
          THEN Some(toks[CHOOSE k \in 1..Len(toks) :
                           toks[k] \notin all_ids /\ \A j \in 1..(k - 1) : toks[j] \in all_ids])
          ELSE None

(* the first token of the target that is not in all_ids, as an Option *)
first_unresolved(target, all_ids) ==
  IF target = None THEN None
  ELSE LET toks == split_whitespace(target[1])
       IN IF \E k \in 1..Len(toks) : toks[k] \notin all_ids
          THEN Some(toks[CHOOSE k \in 1..Len(toks) :
                           toks[k] \notin all_ids /\ \A j \in 1..(k - 1) : toks[j] \in all_ids])
          ELSE None

RECURSIVE check_transitions(_, _, _)
check_transitions(transitions, i, all_ids) ==
  IF i > Len(transitions) THEN VOk
  ELSE LET bad == first_unresolved(transitions[i].target, all_ids)
       IN IF bad # None THEN InvalidTarget(bad[1])
          ELSE check_transitions(transitions, i + 1, all_ids)

RECURSIVE validate_transition_targets_from(_, _, _)
validate_transition_targets_from(states, i, all_ids) ==
  IF i > Len(states) THEN VOk
  ELSE LET s == states[i]
           r == CASE s.kind \in {"State", "Parallel"} ->
                       LET t == check_transitions(s.transitions, 1, all_ids)
                       IN IF t # VOk THEN t
                          ELSE validate_transition_targets_from(s.children, 1, all_ids)
                  [] s.kind = "History" -> check_transitions(s.transition, 1, all_ids)
                  [] OTHER -> VOk
       IN IF r # VOk THEN r ELSE validate_transition_targets_from(states, i + 1, all_ids)

validate_transition_targets(states, all_ids) ==
  validate_transition_targets_from(states, 1, all_ids)

RECURSIVE validate_datamodel_from(_, _, _)
validate_datamodel_from(data_elements, i, data_ids) ==
  IF i > Len(data_elements) THEN VOk
  ELSE IF data_elements[i].id \in data_ids THEN DuplicateId(data_elements[i].id)
  ELSE validate_datamodel_from(data_elements, i + 1, data_ids \cup {data_elements[i].id})

(* mutant: the data ids are not compared *)
validate_datamodel_unchecked(data_elements) == VOk

validate_datamodel_constraints(data_elements) == validate_datamodel_from(data_elements, 1, {})

(* mutant: the top-level initial is not looked up *)
validate_initial_skipped(initial, all_ids) == VOk

(* mutant: the top-level initial is split on whitespace like a transition target *)
validate_initial_split(initial, all_ids) ==
  IF first_unresolved(initial, all_ids) # None
  THEN InvalidTarget(first_unresolved(initial, all_ids)[1])
  ELSE VOk

(* the check of the top-level initial against all_ids *)
validate_initial(initial, all_ids) ==
  IF initial # None /\ initial[1] \notin all_ids THEN InvalidTarget(initial[1]) ELSE VOk

CircularInitial == [tag |-> "CircularInitial", val |-> <<>>]

(* some State of the list, at any depth, refers by its initial attribute (how   *)
(* has "attribute") or by the target of its <initial> transition (how has       *)
(* "element") to its own id or to the id of an element it is inside of          *)
RECURSIVE initial_cycle_in(_, _, _)
initial_cycle_in(states, above, how) ==
  \E i \in 1..Len(states) :
    LET s == states[i]
        ids == above \cup (IF s.id = None THEN {} ELSE {s.id[1]})
    IN /\ s.kind \in {"State", "Parallel"}
       /\ \/ /\ s.kind = "State" /\ "attribute" \in how
             /\ s.initial # None /\ s.initial[1] \in ids
          \/ /\ s.kind = "State" /\ "element" \in how
             /\ s.initial_element # None
             /\ s.initial_element[1].transition.target # None
             /\ \E k \in 1..Len(split_whitespace(s.initial_element[1].transition.target[1])) :
                  split_whitespace(s.initial_element[1].transition.target[1])[k] \in ids
          \/ initial_cycle_in(s.children, ids, how)

(* mutant: the check the TODO of validate announces is made, before the others *)
validate_circular_rejected(scxml) ==
  IF initial_cycle_in(scxml.states, {}, {"attribute", "element"}) THEN CircularInitial
  ELSE LET c == collect_state_ids(scxml.states, {})
       IN IF c.res # VOk THEN c.res
          ELSE LET t == validate_transition_targets(scxml.states, c.all_ids)
               IN IF t # VOk THEN t
                  ELSE LET r == validate_initial(scxml.initial, c.all_ids)
                       IN IF r # VOk THEN r
                          ELSE validate_datamodel_constraints(scxml.datamodel_elements)

(* mutant: the top-level initial is looked up before the transition targets *)
validate_initial_first(scxml) ==
  LET c == collect_state_ids(scxml.states, {})
  IN IF c.res # VOk THEN c.res
     ELSE LET r == validate_initial(scxml.initial, c.all_ids)
          IN IF r # VOk THEN r
             ELSE LET t == validate_transition_targets(scxml.states, c.all_ids)
                  IN IF t # VOk THEN t
                     ELSE validate_datamodel_constraints(scxml.datamodel_elements)

(* mutant: the targets of an element are looked up when its id is collected,   *)
(* among the ids collected up to then                                          *)
RECURSIVE collect_and_check_from(_, _, _)
collect_and_check_from(states, i, acc) ==
  IF i > Len(states) \/ acc.res # VOk THEN acc
  ELSE LET s == states[i]
           a1 == insert_id(s.id, acc)
           t == CASE s.kind \in {"State", "Parallel"} ->
                       check_transitions(s.transitions, 1, a1.all_ids)
                  [] s.kind = "History" -> check_transitions(s.transition, 1, a1.all_ids)
                  [] OTHER -> VOk
       IN IF a1.res # VOk THEN a1
          ELSE IF t # VOk THEN [a1 EXCEPT !.res = t]
          ELSE IF s.kind \in {"State", "Parallel"}
          THEN collect_and_check_from(states, i + 1, collect_and_check_from(s.children, 1, a1))
          ELSE collect_and_check_from(states, i + 1, a1)

validate_single_pass(scxml) ==
  LET c == collect_and_check_from(scxml.states, 1, [res |-> VOk, all_ids |-> {}])
  IN IF c.res # VOk THEN c.res
     ELSE LET r == validate_initial(scxml.initial, c.all_ids)
          IN IF r # VOk THEN r
             ELSE validate_datamodel_constraints(scxml.datamodel_elements)

(* mutant: the initial attribute of every State is looked up as well *)
RECURSIVE check_nested_initials(_, _, _)
check_nested_initials(states, i, all_ids) ==
  IF i > Len(states) THEN VOk
  ELSE LET s == states[i]
           r == IF s.kind = "State" /\ s.initial # None /\ s.initial[1] \notin all_ids
                THEN InvalidTarget(s.initial[1])
                ELSE IF s.kind \in {"State", "Parallel"}
                THEN check_nested_initials(s.children, 1, all_ids)
                ELSE VOk
       IN IF r # VOk THEN r ELSE check_nested_initials(states, i + 1, all_ids)

validate_nested_initial_checked(scxml) ==
  LET c == collect_state_ids(scxml.states, {})
  IN IF c.res # VOk THEN c.res
     ELSE LET t == validate_transition_targets(scxml.states, c.all_ids)
          IN IF t # VOk THEN t
             ELSE LET n == check_nested_initials(scxml.states, 1, c.all_ids)
                  IN IF n # VOk THEN n
                     ELSE LET r == validate_initial(scxml.initial, c.all_ids)
                          IN IF r # VOk THEN r
                             ELSE validate_datamodel_constraints(scxml.datamodel_elements)

validate(scxml) ==
  LET c == collect_state_ids(scxml.states, {})
  IN IF c.res # VOk THEN c.res
     ELSE LET t == validate_transition_targets(scxml.states, c.all_ids)
          IN IF t # VOk THEN t
             ELSE LET r == validate_initial(scxml.initial, c.all_ids)
                  IN IF r # VOk THEN r
                     ELSE validate_datamodel_constraints(scxml.datamodel_elements)

(* ------------------------------ serializer ----------------------------- *)
(* The text to_xml writes is a sequence of tokens: the declaration, tags with  *)
(* their attributes in the order written, character data and comments. ind is  *)
(* the number of 4-space indents before a token that starts a line. An         *)
(* attribute's raw is the text format! puts between the two quotes: the value  *)
(* itself, since nothing is escaped.                                           *)

Tok(t, ind, name, attrs, raw) == [t |-> t, ind |-> ind, name |-> name, attrs |-> attrs, raw |-> raw]

DeclTok == Tok("decl", 0, "xml", <<>>, <<>>)

OpenTok(ind, name, attrs) == Tok("open", ind, name, attrs, <<>>)

EmptyTok(ind, name, attrs) == Tok("empty", ind, name, attrs, <<>>)

EndTok(ind, name) == Tok("end", ind, name, <<>>, <<>>)

TextTok(raw) == Tok("text", 0, "", <<>>, raw)

CommentTok(ind) == Tok("comment", ind, " Unsupported executable ", <<>>, <<>>)

Attr(name, value) == <<(<<name, value>>)>>

OptAttr(name, opt) == IF opt = None THEN <<>> ELSE Attr(name, opt[1])

(* an element closed by "/>" without content and written ">content</name>" with it *)
WithContent(ind, name, attrs, content) ==
  IF content = None THEN <<EmptyTok(ind, name, attrs)>>
  ELSE <<OpenTok(ind, name, attrs), TextTok(content[1]), EndTok(0, name)>>

serialize_executable(executable, indent_level) ==
  CASE executable.kind = "Raise" ->
         <<EmptyTok(indent_level, "raise", Attr("event", executable.event))>>
    [] executable.kind = "Script" ->
         WithContent(indent_level, "script", OptAttr("src", executable.src), executable.content)
    [] executable.kind = "Assign" ->
         <<EmptyTok(indent_level, "assign",
                    Attr("location", executable.location) \o Attr("expr", executable.expr))>>
    [] executable.kind = "Log" ->
         <<EmptyTok(indent_level, "log",
                    OptAttr("label", executable.label) \o Attr("expr", executable.expr))>>
    [] OTHER -> <<CommentTok(indent_level)>>

RECURSIVE serialize_executables(_, _)
serialize_executables(execs, indent_level) ==
  IF execs = <<>> THEN <<>>
  ELSE serialize_executable(Head(execs), indent_level)
         \o serialize_executables(Tail(execs), indent_level)

serialize_transition(transition, indent_level) ==
  IF transition.executables = <<>>
  THEN <<EmptyTok(indent_level, "transition",
                  OptAttr("event", transition.event) \o OptAttr("cond", transition.cond)
                    \o OptAttr("target", transition.target) \o OptAttr("type", transition.type_))>>
  ELSE <<OpenTok(indent_level, "transition",
                 OptAttr("event", transition.event) \o OptAttr("cond", transition.cond)
                   \o OptAttr("target", transition.target) \o OptAttr("type", transition.type_))>>
         \o serialize_executables(transition.executables, indent_level + 1)
         \o <<EndTok(indent_level, "transition")>>

RECURSIVE serialize_transitions(_, _)
serialize_transitions(transitions, indent_level) ==
  IF transitions = <<>> THEN <<>>
  ELSE serialize_transition(Head(transitions), indent_level)
         \o serialize_transitions(Tail(transitions), indent_level)

serialize_initial(initial, indent_level) ==
  <<OpenTok(indent_level, "initial", OptAttr("id", initial.id))>>
    \o serialize_transition(initial.transition, indent_level + 1)
    \o <<EndTok(indent_level, "initial")>>

serialize_param(param, indent_level) ==
  <<EmptyTok(indent_level, "param",
             Attr("name", param.name) \o OptAttr("expr", param.expr)
               \o OptAttr("location", param.location))>>

RECURSIVE serialize_params(_, _)
serialize_params(params, indent_level) ==
  IF params = <<>> THEN <<>>
  ELSE serialize_param(Head(params), indent_level) \o serialize_params(Tail(params), indent_level)

serialize_invoke(invoke, indent_level) ==
  IF invoke.params = <<>> /\ invoke.finalize = None /\ invoke.content = None
  THEN <<EmptyTok(indent_level, "invoke",
                  Attr("type", invoke.type_) \o OptAttr("src", invoke.src)
                    \o OptAttr("id", invoke.id))>>
  ELSE <<OpenTok(indent_level, "invoke",
                 Attr("type", invoke.type_) \o OptAttr("src", invoke.src)
                   \o OptAttr("id", invoke.id))>>
         \o serialize_params(invoke.params, indent_level + 1)
         \o <<EndTok(indent_level, "invoke")>>

RECURSIVE serialize_invokes(_, _)
serialize_invokes(invokes, indent_level) ==
  IF invokes = <<>> THEN <<>>
  ELSE serialize_invoke(Head(invokes), indent_level)
         \o serialize_invokes(Tail(invokes), indent_level)

(* an <onentry> or <onexit> block, written only for a non-empty list *)
serialize_block(name, execs, indent_level) ==
  IF execs = <<>> THEN <<>>
  ELSE <<OpenTok(indent_level, name, <<>>)>>
         \o serialize_executables(execs, indent_level + 1)
         \o <<EndTok(indent_level, name)>>

RECURSIVE serialize_state_like(_, _)
RECURSIVE serialize_state_likes(_, _)
serialize_state_likes(states, indent_level) ==
  IF states = <<>> THEN <<>>
  ELSE serialize_state_like(Head(states), indent_level)
         \o serialize_state_likes(Tail(states), indent_level)

serialize_state(s, indent_level) ==
  IF /\ s.transitions = <<>> /\ s.onentry = <<>> /\ s.onexit = <<>>
     /\ s.children = <<>> /\ s.invokes = <<>> /\ s.initial_element = None
  THEN <<EmptyTok(indent_level, "state", OptAttr("id", s.id) \o OptAttr("initial", s.initial))>>
  ELSE <<OpenTok(indent_level, "state", OptAttr("id", s.id) \o OptAttr("initial", s.initial))>>
         \o (IF s.initial_element = None THEN <<>>
             ELSE serialize_initial(s.initial_element[1], indent_level + 1))
         \o serialize_block("onentry", s.onentry, indent_level + 1)
         \o serialize_state_likes(s.children, indent_level + 1)
         \o serialize_transitions(s.transitions, indent_level + 1)
         \o serialize_block("onexit", s.onexit, indent_level + 1)
         \o serialize_invokes(s.invokes, indent_level + 1)
         \o <<EndTok(indent_level, "state")>>

serialize_state_like(state, indent_level) ==
  CASE state.kind = "State" -> serialize_state(state, indent_level)
    [] state.kind = "Parallel" ->
         <<OpenTok(indent_level, "parallel", OptAttr("id", state.id))>>
           \o serialize_state_likes(state.children, indent_level + 1)
           \o <<EndTok(indent_level, "parallel")>>
    [] state.kind = "Final" -> <<EmptyTok(indent_level, "final", OptAttr("id", state.id))>>
    [] state.kind = "History" ->
         <<EmptyTok(indent_level, "history",
                    OptAttr("id", state.id) \o Attr("type", state.type_))>>

serialize_data(data) ==
  WithContent(2, "data",
              Attr("id", data.id) \o OptAttr("expr", data.expr) \o OptAttr("src", data.src),
              data.content)

RECURSIVE serialize_datas(_)
serialize_datas(datas) ==
  IF datas = <<>> THEN <<>> ELSE serialize_data(Head(datas)) \o serialize_datas(Tail(datas))

(* mutant: the datamodel attribute is written before the initial attribute *)
to_xml_datamodel_attribute_first(scxml) ==
  <<DeclTok,
    OpenTok(0, "scxml",
            Attr("xmlns", <<SCXML_NS>>) \o Attr("version", scxml.version)
              \o OptAttr("datamodel", scxml.datamodel) \o OptAttr("initial", scxml.initial))>>
    \o (IF scxml.datamodel_elements = <<>> THEN <<>>
        ELSE <<OpenTok(1, "datamodel", <<>>)>> \o serialize_datas(scxml.datamodel_elements)
               \o <<EndTok(1, "datamodel")>>)
    \o serialize_state_likes(scxml.states, 1)
    \o <<EndTok(0, "scxml")>>

(* the namespace URI is one symbol of the text *)
to_xml(scxml) ==
  <<DeclTok,
    OpenTok(0, "scxml",
            Attr("xmlns", <<SCXML_NS>>) \o Attr("version", scxml.version)
              \o OptAttr("initial", scxml.initial) \o OptAttr("datamodel", scxml.datamodel))>>
    \o (IF scxml.datamodel_elements = <<>> THEN <<>>
        ELSE <<OpenTok(1, "datamodel", <<>>)>> \o serialize_datas(scxml.datamodel_elements)
               \o <<EndTok(1, "datamodel")>>)
    \o serialize_state_likes(scxml.states, 1)
    \o <<EndTok(0, "scxml")>>

(* ---------------- Document::parse on the serializer's text ---------------- *)
(* The reader of the tokens to_xml writes. Their tags are balanced by          *)
(* construction; what can go wrong is markup inside the raw text of a value:   *)
(* a quote ends an attribute value early, a "<" opens a tag, and an "&" must   *)
(* start a reference. The reader puts the character a reference stands for in  *)
(* the value it returns.                                                       *)

AMP == "&"

LT == "<"

(* the predefined entities: the text of the reference and what it stands for *)
Entities ==
  {[ref |-> <<"&", "q", "u", "o", "t", ";">>, ch |-> QUOTE],
   [ref |-> <<"&", "a", "m", "p", ";">>, ch |-> AMP],
   [ref |-> <<"&", "l", "t", ";">>, ch |-> LT],
   [ref |-> <<"&", "g", "t", ";">>, ch |-> ">"],
   [ref |-> <<"&", "a", "p", "o", "s", ";">>, ch |-> "'"]}

(* the entities whose reference s starts with: none or one *)
ReferenceAt(s) == {e \in Entities : Len(s) >= Len(e.ref) /\ SubSeq(s, 1, Len(e.ref)) = e.ref}

(* the value of a raw text: every reference replaced by its character *)
RECURSIVE unescape(_)
unescape(s) ==
  IF s = <<>> THEN <<>>
  ELSE IF ReferenceAt(s) # {}
  THEN <<(CHOOSE e \in ReferenceAt(s) : TRUE).ch>>
         \o unescape(SubSeq(s, Len((CHOOSE e \in ReferenceAt(s) : TRUE).ref) + 1, Len(s)))
  ELSE <<Head(s)>> \o unescape(Tail(s))

(* no "<", and every "&" starts a reference *)
ValidText(s) ==
  \A i \in 1..Len(s) :
    /\ s[i] # LT
    /\ s[i] = AMP => ReferenceAt(SubSeq(s, i, Len(s))) # {}

AttrsOf(tok) ==
  [n \in {tok.attrs[k][1] : k \in 1..Len(tok.attrs)} \ {"xmlns"} |->
     unescape(tok.attrs[CHOOSE k \in 1..Len(tok.attrs) : tok.attrs[k][1] = n][2])]

NodeOf(tok, children, text) ==
  [tag |-> tok.name, attrs |-> AttrsOf(tok), children |-> children, text |-> text]

RECURSIVE read_children(_, _, _, _, _)

(* the element starting at toks[i], and the index after it *)
read_element(toks, i) ==
  IF toks[i].t = "empty" THEN [node |-> NodeOf(toks[i], <<>>, None), next |-> i + 1]
  ELSE read_children(toks, i + 1, toks[i], <<>>, None)

add_child(toks, tok, children, text, r) ==
  read_children(toks, r.next, tok, Append(children, r.node), text)

(* Node::text is the first child when that child is character data *)
read_children(toks, j, tok, children, text) ==
  CASE toks[j].t = "end" -> [node |-> NodeOf(tok, children, text), next |-> j + 1]
    [] toks[j].t = "text" ->
         read_children(toks, j + 1, tok, children,
                       IF children = <<>> /\ text = None /\ toks[j].raw # <<>>
                       THEN Some(unescape(toks[j].raw)) ELSE text)
    [] toks[j].t = "comment" -> read_children(toks, j + 1, tok, children, text)
    [] OTHER -> add_child(toks, tok, children, text, read_element(toks, j))

NamespaceOf(tok) ==
  IF \E k \in 1..Len(tok.attrs) : tok.attrs[k][1] = "xmlns"
  THEN Some(tok.attrs[CHOOSE k \in 1..Len(tok.attrs) : tok.attrs[k][1] = "xmlns"][2][1])
  ELSE None

WellFormed(toks) ==
  \A i \in 1..Len(toks) :
    /\ ValidText(toks[i].raw)
    /\ \A k \in 1..Len(toks[i].attrs) :
         ~Contains(toks[i].attrs[k][2], QUOTE) /\ ValidText(toks[i].attrs[k][2])

with_namespace(node, ns) ==
  [tag |-> node.tag, ns |-> ns, attrs |-> node.attrs, children |-> node.children,
   text |-> node.text]

(* Document::parse(xml)?.root_element() *)
read_xml(toks) ==
  IF ~WellFormed(toks) THEN Err("InvalidXml", "")
  ELSE Ok(with_namespace(read_element(toks, 2).node, NamespaceOf(toks[2])))

(* parse_scxml_with_options on text: the ? after Document::parse, then the rest *)
parse_text_with(r, options) == IF r.ok THEN parse_scxml_with_options(r.val, options) ELSE r

parse_text(toks, options) == parse_text_with(read_xml(toks), options)

(* ------------------- the document handed to the parser ------------------ *)

(* number of elements below node *)
RECURSIVE Count(_)
RECURSIVE CountSeq(_)
CountSeq(ch) == IF ch = <<>> THEN 0 ELSE 1 + Count(Head(ch)) + CountSeq(Tail(ch))

Count(node) == CountSeq(node.children)

(* elements plus the optional attributes of the root *)
Size(root) == Count(root) + Cardinality(DOMAIN root.attrs \ {"version"})

(* length of the path from node down its last children *)
RECURSIVE RightDepth(_)
RightDepth(node) ==
  IF node.children = <<>> THEN 0 ELSE 1 + RightDepth(node.children[Len(node.children)])

RECURSIVE NodeAt(_, _)
NodeAt(node, d) == IF d = 0 THEN node ELSE NodeAt(node.children[Len(node.children)], d - 1)

(* node with e appended as the last child of the d-th element of its rightmost path *)
RECURSIVE AppendAt(_, _, _)
AppendAt(node, d, e) ==
  IF d = 0 THEN [node EXCEPT !.children = Append(@, e)]
  ELSE [node EXCEPT !.children[Len(node.children)] = AppendAt(@, d - 1, e)]

IdChoices == {None, Some(sA), Some(sB)}

IdAttrs(id) == IF id = None THEN NoAttrs ELSE ("id" :> id[1])

StateLikeElems ==
  {Elem(t, IdAttrs(id)) : t \in {"state", "parallel", "final", "history"}, id \in IdChoices}

TargetChoices == {sA, sB, <<"a", SP, "b">>, sC, <<"c", SP, "b">>}

TransitionElems == {Elem("transition", "target" :> t) : t \in TargetChoices}

DataElems == {Elem("data", "id" :> id) : id \in {sA, sB}}

RootInitialChoices == {sA, sC}

Root(tag, ns, attrs) ==
  [tag |-> tag, ns |-> ns, attrs |-> attrs, children |-> <<>>, text |-> None]

NoResult == [ok |-> FALSE, val |-> <<>>, err |-> <<>>]

NoVResult == [tag |-> "None", val |-> <<>>]

(* ------------------------------ actions -------------------------------- *)

(* the documents got by writing one more element, of the set elems, as the last *)
(* child of an element of the rightmost path whose tag is in parents            *)
Added(parents, elems) ==
  {AppendAt(xml, d, e) : d \in {k \in 0..RightDepth(xml) : NodeAt(xml, k).tag \in parents},
                         e \in elems}

AddStateLike ==
  /\ pc = "build"
  /\ Size(xml) < MaxNodes
  /\ xml' \in Added({"scxml", "state", "parallel"}, StateLikeElems)
  /\ UNCHANGED <<opts, pc, pres, vres, out, rres>>

AddTransition ==
  /\ pc = "build"
  /\ Size(xml) < MaxNodes
  /\ xml' \in Added({"state", "parallel", "history", "initial"}, TransitionElems)
  /\ UNCHANGED <<opts, pc, pres, vres, out, rres>>

AddInitial ==
  /\ pc = "build"
  /\ Size(xml) < MaxNodes
  /\ xml' \in Added({"state"}, {Elem("initial", NoAttrs)})
  /\ UNCHANGED <<opts, pc, pres, vres, out, rres>>

AddDatamodel ==
  /\ pc = "build"
  /\ Size(xml) < MaxNodes
  /\ xml' \in Added({"scxml"}, {Elem("datamodel", NoAttrs)})
  /\ UNCHANGED <<opts, pc, pres, vres, out, rres>>

AddData ==
  /\ pc = "build"
  /\ Size(xml) < MaxNodes
  /\ xml' \in Added({"datamodel"}, DataElems)
  /\ UNCHANGED <<opts, pc, pres, vres, out, rres>>

SetRootInitial ==
  /\ pc = "build"
  /\ Size(xml) < MaxNodes
  /\ "initial" \notin DOMAIN xml.attrs
  /\ \E v \in RootInitialChoices : xml' = [xml EXCEPT !.attrs = @ @@ ("initial" :> v)]
  /\ UNCHANGED <<opts, pc, pres, vres, out, rres>>

Parse ==
  /\ pc = "build"
  /\ pres' = parse_scxml_with_options(xml, opts)
  /\ pc' = "parsed"
  /\ UNCHANGED <<xml, opts, vres, out, rres>>

Validate ==
  /\ pc = "parsed"
  /\ pres.ok
  /\ vres' = validate(pres.val)
  /\ pc' = "validated"
  /\ UNCHANGED <<xml, opts, pres, out, rres>>

Init ==
  /\ xml = Root("scxml", Some(SCXML_NS), "version" :> V10)
  /\ opts = ParseOptions_default
  /\ pc = "build"
  /\ pres = NoResult
  /\ vres = NoVResult
  /\ out = <<>>
  /\ rres = NoResult

Next ==
  \/ AddStateLike
  \/ AddTransition
  \/ AddInitial
  \/ AddDatamodel
  \/ AddData
  \/ SetRootInitial
  \/ Parse
  \/ Validate

Spec == Init /\ [][Next]_vars

(* ------------- documents that differ in their root element -------------- *)

RootTags == {"scxml", "machine"}

RootNamespaces == {None, Some(SCXML_NS), Some(OTHER_NS)}

RootVersions == {NoAttrs, "version" :> V10, "version" :> V20}

(* a <datamodel> whose <data> has no id: parse_datamodel fails on it *)
BadDatamodel == [Elem("datamodel", NoAttrs) EXCEPT !.children = <<Elem("data", NoAttrs)>>]

RootChildElems == {Elem("state", IdAttrs(Some(sA))), BadDatamodel}

AddRootChild ==
  /\ pc = "build"
  /\ \E e \in RootChildElems :
       /\ Size(xml) + 1 + Count(e) <= MaxNodes
       /\ xml' = [xml EXCEPT !.children = Append(@, e)]
  /\ UNCHANGED <<opts, pc, pres, vres, out, rres>>

InitRoot ==
  /\ xml \in {Root(t, ns, v) : t \in RootTags, ns \in RootNamespaces, v \in RootVersions}
  /\ opts \in {[relaxed_namespace |-> b] : b \in BOOLEAN}
  /\ pc = "build"
  /\ pres = NoResult
  /\ vres = NoVResult
  /\ out = <<>>
  /\ rres = NoResult

NextRoot ==
  \/ AddRootChild
  \/ Parse

SpecRoot == InitRoot /\ [][NextRoot]_vars

(* ------------------- documents that are written back -------------------- *)

(* the id a" : what the attribute value a&quot; is read as *)
sAQ == <<"a", QUOTE>>

DEEP == <<"d", "e", "e", "p">>

WithText(e, text) == [e EXCEPT !.text = Some(text)]

RoundStateLikeElems ==
  {Elem("state", NoAttrs), Elem("state", "id" :> sA), Elem("state", "id" :> sAQ),
   Elem("state", ("id" :> sB) @@ ("initial" :> sA)),
   Elem("parallel", "id" :> sA), Elem("final", "id" :> sB),
   Elem("history", "id" :> sB), Elem("history", ("id" :> sB) @@ ("type" :> DEEP))}

RoundTransitionElems ==
  {Elem("transition", "target" :> sA),
   Elem("transition", ("event" :> sA) @@ ("cond" :> sB) @@ ("target" :> sA) @@ ("type" :> sB))}

BlockElems == {Elem("onentry", NoAttrs), Elem("onexit", NoAttrs)}

ExecutableElems ==
  {Elem("raise", "event" :> sA), WithText(Elem("script", NoAttrs), sA),
   Elem("script", "src" :> sA), Elem("assign", ("location" :> sA) @@ ("expr" :> sB)),
   Elem("log", ("label" :> sA) @@ ("expr" :> sB))}

InvokeElems == {Elem("invoke", "type" :> sA), Elem("invoke", ("src" :> sA) @@ ("id" :> sB))}

ParamElems == {Elem("param", ("name" :> sA) @@ ("expr" :> sB))}

RoundDataElems ==
  {Elem("data", "id" :> sA), Elem("data", ("id" :> sA) @@ ("expr" :> sB)),
   WithText(Elem("data", ("id" :> sB) @@ ("src" :> sA)), sA)}

RootAttrChoices == {"initial" :> sA, "datamodel" :> sB}

AddRoundStateLike ==
  /\ pc = "build"
  /\ Size(xml) < MaxNodes
  /\ xml' \in Added({"scxml", "state", "parallel"}, RoundStateLikeElems)
  /\ UNCHANGED <<opts, pc, pres, vres, out, rres>>

AddRoundTransition ==
  /\ pc = "build"
  /\ Size(xml) < MaxNodes
  /\ xml' \in Added({"state", "parallel", "history", "initial"}, RoundTransitionElems)
  /\ UNCHANGED <<opts, pc, pres, vres, out, rres>>

AddBlock ==
  /\ pc = "build"
  /\ Size(xml) < MaxNodes
  /\ xml' \in Added({"state", "parallel", "final"}, BlockElems)
  /\ UNCHANGED <<opts, pc, pres, vres, out, rres>>

AddExecutable ==
  /\ pc = "build"
  /\ Size(xml) < MaxNodes
  /\ xml' \in Added({"onentry", "onexit", "transition"}, ExecutableElems)
  /\ UNCHANGED <<opts, pc, pres, vres, out, rres>>

AddInvoke ==
  /\ pc = "build"
  /\ Size(xml) < MaxNodes
  /\ xml' \in Added({"state", "parallel"}, InvokeElems)
  /\ UNCHANGED <<opts, pc, pres, vres, out, rres>>

AddParam ==
  /\ pc = "build"
  /\ Size(xml) < MaxNodes
  /\ xml' \in Added({"invoke"}, ParamElems)
  /\ UNCHANGED <<opts, pc, pres, vres, out, rres>>

AddRoundData ==
  /\ pc = "build"
  /\ Size(xml) < MaxNodes
  /\ xml' \in Added({"datamodel"}, RoundDataElems)
  /\ UNCHANGED <<opts, pc, pres, vres, out, rres>>

SetRootAttr ==
  /\ pc = "build"
  /\ Size(xml) < MaxNodes
  /\ \E a \in RootAttrChoices :
       /\ DOMAIN a \cap DOMAIN xml.attrs = {}
       /\ xml' = [xml EXCEPT !.attrs = @ @@ a]
  /\ UNCHANGED <<opts, pc, pres, vres, out, rres>>

Serialize ==
  /\ pc = "parsed"
  /\ pres.ok
  /\ out' = to_xml(pres.val)
  /\ pc' = "serialized"
  /\ UNCHANGED <<xml, opts, pres, vres, rres>>

(* the text is parsed again, in strict and in relaxed mode *)
Reparse ==
  /\ pc = "serialized"
  /\ rres' = [b \in BOOLEAN |-> parse_text(out, [relaxed_namespace |-> b])]
  /\ pc' = "reparsed"
  /\ UNCHANGED <<xml, opts, pres, vres, out>>

NextRound ==
  \/ AddRoundStateLike
  \/ AddRoundTransition
  \/ AddInitial
  \/ AddBlock
  \/ AddExecutable
  \/ AddInvoke
  \/ AddParam
  \/ AddDatamodel
  \/ AddRoundData
  \/ SetRootAttr
  \/ Parse
  \/ Serialize
  \/ Reparse

SpecRound == Init /\ [][NextRound]_vars

(* ---------- documents that are written back and read a second time ------- *)

(* the value &quot; : what the attribute text &amp;quot; is read as *)
sEQ == <<"&", "q", "u", "o", "t", ";">>

AddEscaped ==
  /\ pc = "build"
  /\ Size(xml) < MaxNodes
  /\ \/ xml' \in Added({"scxml", "state", "parallel"}, {Elem("state", "id" :> sEQ)})
     \/ xml' \in Added({"state"}, {Elem("transition", "target" :> sEQ)})
     \/ xml' \in Added({"onentry", "onexit", "transition"}, {WithText(Elem("script", NoAttrs), sEQ)})
  /\ UNCHANGED <<opts, pc, pres, vres, out, rres>>

(* the Document read back is the one at hand from now on, and is written again *)
SerializeAgain ==
  /\ pc = "reparsed"
  /\ rres[FALSE].ok
  /\ pres' = rres[FALSE]
  /\ out' = to_xml(rres[FALSE].val)
  /\ pc' = "serialized again"
  /\ UNCHANGED <<xml, opts, vres, rres>>

ReparseAgain ==
  /\ pc = "serialized again"
  /\ rres' = [b \in BOOLEAN |-> parse_text(out, [relaxed_namespace |-> b])]
  /\ pc' = "reparsed again"
  /\ UNCHANGED <<xml, opts, pres, vres, out>>

NextAgain ==
  \/ AddRoundStateLike
  \/ AddRoundTransition
  \/ AddInitial
  \/ AddBlock
  \/ AddExecutable
  \/ AddInvoke
  \/ AddParam
  \/ AddDatamodel
  \/ AddRoundData
  \/ SetRootAttr
  \/ AddEscaped
  \/ Parse
  \/ Serialize
  \/ Reparse
  \/ SerializeAgain
  \/ ReparseAgain

SpecAgain == Init /\ [][NextAgain]_vars

(* --------------- documents grown from a three-element start ------------- *)
(* The specifications below start from a document of three elements, which    *)
(* sets the place the claim is about (an <if> inside an <onentry>, a <param>  *)
(* inside an <invoke>), and write at most MaxNodes further elements into it.  *)

WithChildren(e, ch) == [e EXCEPT !.children = ch]

(* <a><b><c/></b></a> under the root *)
Chain(a, b, c) ==
  [Root("scxml", Some(SCXML_NS), "version" :> V10) EXCEPT
     !.children = <<WithChildren(a, <<WithChildren(b, <<c>>)>>)>>]

(* the elements written since the start *)
Grown(root) == Count(root) - 3

InitFrom(starts) ==
  /\ xml \in starts
  /\ opts = ParseOptions_default
  /\ pc = "build"
  /\ pres = NoResult
  /\ vres = NoVResult
  /\ out = <<>>
  /\ rres = NoResult

(* ---------------------- documents with <if> branches -------------------- *)

IfStarts ==
  {Chain(Elem("state", NoAttrs), Elem(c, NoAttrs), Elem("if", "cond" :> sA)) :
     c \in {"onentry", "onexit", "transition"}}

BranchElems == {Elem("raise", "event" :> sA), Elem("log", "expr" :> sB)}

NestingElems == {Elem("if", "cond" :> sB), Elem("foreach", "array" :> sA)}

AddBranchExecutable ==
  /\ pc = "build"
  /\ Grown(xml) < MaxNodes
  /\ xml' \in Added({"if", "foreach"}, BranchElems)
  /\ UNCHANGED <<opts, pc, pres, vres, out, rres>>

AddNesting ==
  /\ pc = "build"
  /\ Grown(xml) < MaxNodes
  /\ xml' \in Added({"if", "foreach"}, NestingElems)
  /\ UNCHANGED <<opts, pc, pres, vres, out, rres>>

AddElse ==
  /\ pc = "build"
  /\ Grown(xml) < MaxNodes
  /\ xml' \in Added({"if"}, {Elem("else", NoAttrs)})
  /\ UNCHANGED <<opts, pc, pres, vres, out, rres>>

InitIf == InitFrom(IfStarts)

NextIf ==
  \/ AddBranchExecutable
  \/ AddNesting
  \/ AddElse
  \/ Parse

SpecIf == InitIf /\ [][NextIf]_vars

(* ------------- the snapshot's parser on the documents with <if> ---------- *)

(* parse_executables of blackjack.rs on the block the <if> of the start is in *)
ParseSnapshot ==
  /\ pc = "parsed"
  /\ rres' = blackjack_parse_executables(xml.children[1].children[1])
  /\ pc' = "compared"
  /\ UNCHANGED <<xml, opts, pres, vres, out>>

NextSnapshot ==
  \/ AddBranchExecutable
  \/ AddNesting
  \/ AddElse
  \/ Parse
  \/ ParseSnapshot

SpecSnapshot == InitIf /\ [][NextSnapshot]_vars

(* ------------- documents with required parts left out ------------------ *)

(* <a><b/></a><c/> under the root *)
Fork(a, b, c) ==
  [Root("scxml", Some(SCXML_NS), "version" :> V10) EXCEPT
     !.children = <<WithChildren(a, <<b>>), c>>]

AbortStarts ==
  {Chain(Elem("state", NoAttrs), Elem("state", NoAttrs), Elem("initial", NoAttrs)),
   Chain(Elem("state", NoAttrs), Elem("invoke", NoAttrs), Elem("param", NoAttrs)),
   Chain(Elem("parallel", NoAttrs), Elem("invoke", NoAttrs), Elem("param", "name" :> sA)),
   Chain(Elem("final", NoAttrs), Elem("state", NoAttrs), Elem("initial", NoAttrs)),
   Chain(Elem("final", NoAttrs), Elem("invoke", NoAttrs), Elem("param", NoAttrs)),
   Fork(Elem("datamodel", NoAttrs), Elem("data", NoAttrs), Elem("state", NoAttrs)),
   Fork(Elem("datamodel", NoAttrs), Elem("data", "id" :> sA), Elem("state", NoAttrs))}

AddNestedState ==
  /\ pc = "build"
  /\ Grown(xml) < MaxNodes
  /\ xml' \in Added({"scxml", "state", "parallel"}, {Elem("state", NoAttrs)})
  /\ UNCHANGED <<opts, pc, pres, vres, out, rres>>

AddInitialPart ==
  /\ pc = "build"
  /\ Grown(xml) < MaxNodes
  /\ \/ xml' \in Added({"state"}, {Elem("initial", NoAttrs)})
     \/ xml' \in Added({"initial"}, {Elem("transition", NoAttrs)})
  /\ UNCHANGED <<opts, pc, pres, vres, out, rres>>

AddInvokePart ==
  /\ pc = "build"
  /\ Grown(xml) < MaxNodes
  /\ \/ xml' \in Added({"state", "parallel"}, {Elem("invoke", NoAttrs)})
     \/ xml' \in Added({"invoke"}, {Elem("param", NoAttrs), Elem("param", "name" :> sA)})
  /\ UNCHANGED <<opts, pc, pres, vres, out, rres>>

AddDataPart ==
  /\ pc = "build"
  /\ Grown(xml) < MaxNodes
  /\ \/ xml' \in Added({"scxml"}, {Elem("datamodel", NoAttrs)})
     \/ xml' \in Added({"datamodel"}, {Elem("data", NoAttrs), Elem("data", "id" :> sA)})
  /\ UNCHANGED <<opts, pc, pres, vres, out, rres>>

InitAbort == InitFrom(AbortStarts)

NextAbort ==
  \/ AddNestedState
  \/ AddInitialPart
  \/ AddInvokePart
  \/ AddDataPart
  \/ Parse

SpecAbort == InitAbort /\ [][NextAbort]_vars

(* ---------------- documents with elements out of place ------------------ *)

FOO == Elem("foo", NoAttrs)

SkipStarts ==
  {Chain(Elem("state", NoAttrs), Elem("onentry", NoAttrs), FOO),
   Chain(Elem("state", NoAttrs), Elem("transition", NoAttrs), Elem("if", NoAttrs)),
   Chain(Elem("parallel", NoAttrs), Elem("onexit", NoAttrs), Elem("foreach", NoAttrs)),
   Chain(Elem("final", NoAttrs), Elem("onexit", NoAttrs), FOO),
   Chain(Elem("state", NoAttrs), Elem("invoke", NoAttrs), Elem("finalize", NoAttrs)),
   Fork(Elem("datamodel", NoAttrs), FOO, Elem("history", NoAttrs))}

ExecutableParents == {"onentry", "onexit", "transition", "finalize", "if", "foreach"}

(* an element no sub-parser knows, anywhere *)
AddUnknown ==
  /\ pc = "build"
  /\ Grown(xml) < MaxNodes
  /\ xml' \in Added({"scxml", "state", "parallel", "final", "history", "invoke", "datamodel",
                      "foo"} \cup ExecutableParents, {FOO})
  /\ UNCHANGED <<opts, pc, pres, vres, out, rres>>

(* an element some sub-parser knows, under a parent whose sub-parser does not *)
AddMisplaced ==
  /\ pc = "build"
  /\ Grown(xml) < MaxNodes
  /\ \/ xml' \in Added({"scxml", "final", "invoke"}, {Elem("transition", "target" :> sA)})
     \/ xml' \in Added({"final", "history", "foo"}, {Elem("state", "id" :> sA)})
     \/ xml' \in Added({"state", "parallel"}, {Elem("data", "id" :> sA)})
  /\ UNCHANGED <<opts, pc, pres, vres, out, rres>>

AddKnownExecutable ==
  /\ pc = "build"
  /\ Grown(xml) < MaxNodes
  /\ xml' \in Added(ExecutableParents, {Elem("raise", "event" :> sA), Elem("else", NoAttrs)})
  /\ UNCHANGED <<opts, pc, pres, vres, out, rres>>

InitSkip == InitFrom(SkipStarts)

NextSkip ==
  \/ AddUnknown
  \/ AddMisplaced
  \/ AddKnownExecutable
  \/ Parse

SpecSkip == InitSkip /\ [][NextSkip]_vars

(* ------------- documents over the whole grammar, with and --------------- *)
(* ------------- without the optional attributes           --------------- *)

MaxItems == 2

(* a history type that is neither "shallow" nor "deep" *)
sX == <<"x">>

(* <a/><b><c/></b> under the root *)
Tailed(a, b, c) ==
  [Root("scxml", Some(SCXML_NS), "version" :> V10) EXCEPT
     !.children = <<a, WithChildren(b, <<c>>)>>]

FullTransition ==
  Elem("transition", ("event" :> sA) @@ ("cond" :> sB) @@ ("target" :> sA) @@ ("type" :> sB))

FullInvoke == Elem("invoke", ("type" :> sA) @@ ("src" :> sB) @@ ("id" :> sA))

FullState == Elem("state", ("id" :> sA) @@ ("initial" :> sB))

(* one element of every executable tag, without attributes *)
BareExecutables ==
  {Elem(t, NoAttrs) :
     t \in {"raise", "if", "foreach", "send", "script", "assign", "log", "cancel"}}

GrammarStarts ==
  {Chain(Elem("state", NoAttrs), Elem("onentry", NoAttrs), e) : e \in BareExecutables}
  \cup
  {Chain(Elem("state", NoAttrs), Elem("parallel", "id" :> sA), Elem("transition", NoAttrs)),
   Chain(FullState, Elem("invoke", NoAttrs), Elem("param", "name" :> sA)),
   Chain(Elem("state", NoAttrs), FullInvoke, Elem("finalize", NoAttrs)),
   Chain(Elem("state", NoAttrs), Elem("invoke", NoAttrs), Elem("content", NoAttrs)),
   Chain(Elem("parallel", NoAttrs), Elem("onexit", NoAttrs), Elem("foreach", NoAttrs)),
   Chain(Elem("final", "id" :> sA), Elem("onexit", NoAttrs), Elem("raise", "event" :> sA)),
   Chain(Elem("final", NoAttrs), Elem("onentry", NoAttrs), Elem("log", NoAttrs)),
   Chain(Elem("state", NoAttrs), Elem("history", NoAttrs), FullTransition),
   Chain(Elem("state", NoAttrs), Elem("history", "type" :> sX), Elem("transition", NoAttrs)),
   Chain(Elem("state", NoAttrs), Elem("initial", NoAttrs), Elem("transition", NoAttrs)),
   Chain(Elem("state", NoAttrs), Elem("initial", "id" :> sA), FullTransition),
   Tailed(Elem("state", NoAttrs), Elem("datamodel", NoAttrs), Elem("data", "id" :> sA)),
   [Tailed(Elem("parallel", NoAttrs), Elem("datamodel", NoAttrs), Elem("data", "id" :> sA))
      EXCEPT !.attrs = @ @@ ("initial" :> sA) @@ ("datamodel" :> sB)]}

AddGrammarStateLike ==
  /\ pc = "build"
  /\ Grown(xml) < MaxItems
  /\ xml' \in Added({"scxml", "state", "parallel"},
                     {Elem("state", NoAttrs), FullState, Elem("final", NoAttrs),
                      Elem("history", ("id" :> sB) @@ ("type" :> DEEP))})
  /\ UNCHANGED <<opts, pc, pres, vres, out, rres>>

AddGrammarTransition ==
  /\ pc = "build"
  /\ Grown(xml) < MaxItems
  /\ xml' \in Added({"state", "parallel", "history", "initial"},
                     {Elem("transition", NoAttrs), FullTransition})
  /\ UNCHANGED <<opts, pc, pres, vres, out, rres>>

AddGrammarInvoke ==
  /\ pc = "build"
  /\ Grown(xml) < MaxItems
  /\ xml' \in Added({"state", "parallel"}, {Elem("invoke", NoAttrs), FullInvoke})
  /\ UNCHANGED <<opts, pc, pres, vres, out, rres>>

AddInvokeChild ==
  /\ pc = "build"
  /\ Grown(xml) < MaxItems
  /\ xml' \in Added({"invoke"},
                     {Elem("param", "name" :> sB),
                      Elem("param", ("name" :> sA) @@ ("expr" :> sA) @@ ("location" :> sB)),
                      Elem("content", "expr" :> sA), Elem("finalize", NoAttrs)})
  /\ UNCHANGED <<opts, pc, pres, vres, out, rres>>

AddGrammarData ==
  /\ pc = "build"
  /\ Grown(xml) < MaxItems
  /\ \/ xml' \in Added({"scxml"}, {Elem("datamodel", NoAttrs)})
     \/ xml' \in Added({"datamodel"},
                        {Elem("data", "id" :> sB),
                         Elem("data", ("id" :> sA) @@ ("expr" :> sA) @@ ("src" :> sB))})
  /\ UNCHANGED <<opts, pc, pres, vres, out, rres>>

AddGrammarBlock ==
  /\ pc = "build"
  /\ Grown(xml) < MaxItems
  /\ xml' \in Added({"state", "parallel", "final"}, BlockElems)
  /\ UNCHANGED <<opts, pc, pres, vres, out, rres>>

AddGrammarExecutable ==
  /\ pc = "build"
  /\ Grown(xml) < MaxItems
  /\ xml' \in Added(ExecutableParents,
                     {Elem("raise", "event" :> sA), Elem("log", NoAttrs),
                      Elem("foreach", ("array" :> sA) @@ ("item" :> sB) @@ ("index" :> sA))})
  /\ UNCHANGED <<opts, pc, pres, vres, out, rres>>

InitGrammar == InitFrom(GrammarStarts)

NextGrammar ==
  \/ AddGrammarStateLike
  \/ AddGrammarTransition
  \/ AddGrammarInvoke
  \/ AddInvokeChild
  \/ AddGrammarData
  \/ AddGrammarBlock
  \/ AddGrammarExecutable
  \/ Parse

SpecGrammar == InitGrammar /\ [][NextGrammar]_vars

(* ------------- documents whose references the validator meets ----------- *)
(* Starts that put an id or a reference at a place the validator reads or     *)
(* passes over, and at most MaxItems further elements or a top-level initial. *)

sAB == <<"a", SP, "b">>

RefStateLikeElems ==
  {Elem(t, "id" :> id) : t \in {"state", "parallel"}, id \in {sA, sB}}
  \cup
  {Elem("final", "id" :> sB), Elem("history", "id" :> sB),
   Elem("state", NoAttrs), Elem("state", "id" :> <<>>),
   Elem("state", ("id" :> sA) @@ ("initial" :> sA)),
   Elem("state", ("id" :> sB) @@ ("initial" :> sA)),
   Elem("state", ("id" :> sB) @@ ("initial" :> sC))}

RefTransitionElems ==
  {Elem("transition", NoAttrs)}
  \cup {Elem("transition", "target" :> t) : t \in {<<>>, <<SP>>, sA, sB, sAB, sC}}

RefPartElems ==
  {Elem("initial", NoAttrs), Elem("initial", "id" :> sA), Elem("invoke", "id" :> sA)}

RefInitialChoices == {<<>>, sA, sC, sAB}

(* <datamodel><a/><b/></datamodel> under the root *)
DataPair(a, b) ==
  [Root("scxml", Some(SCXML_NS), "version" :> V10) EXCEPT
     !.children = <<WithChildren(Elem("datamodel", NoAttrs), <<a, b>>)>>]

RefStarts ==
  {Chain(Elem("state", "id" :> sA), Elem("initial", NoAttrs), Elem("transition", "target" :> sA)),
   Chain(Elem("state", "id" :> sB), Elem("initial", "id" :> sA), Elem("transition", NoAttrs)),
   Chain(Elem("state", "id" :> sA), Elem("state", ("id" :> sB) @@ ("initial" :> sC)),
         Elem("transition", "target" :> sA)),
   Tailed(Elem("state", "id" :> sA), Elem("state", "id" :> sA), Elem("transition", "target" :> sC)),
   Tailed(Elem("state", "id" :> sA), Elem("state", "id" :> sB), Elem("transition", "target" :> sAB)),
   Fork(Elem("state", NoAttrs), Elem("transition", "target" :> sB), Elem("parallel", "id" :> sA)),
   Fork(Elem("state", "id" :> sA), Elem("invoke", "id" :> sA), Elem("final", "id" :> sB)),
   Chain(Elem("state", NoAttrs), Elem("state", "id" :> sB), Elem("transition", "target" :> sC)),
   Tailed(Elem("state", NoAttrs), Elem("state", NoAttrs), Elem("transition", "target" :> <<SP>>)),
   DataPair(Elem("data", "id" :> sA), Elem("data", "id" :> sA))}

AddRefStateLike ==
  /\ pc = "build"
  /\ Size(xml) - 3 < MaxItems
  /\ xml' \in Added({"scxml", "state", "parallel"}, RefStateLikeElems)
  /\ UNCHANGED <<opts, pc, pres, vres, out, rres>>

AddRefTransition ==
  /\ pc = "build"
  /\ Size(xml) - 3 < MaxItems
  /\ xml' \in Added({"state", "parallel", "history", "initial"}, RefTransitionElems)
  /\ UNCHANGED <<opts, pc, pres, vres, out, rres>>

AddRefPart ==
  /\ pc = "build"
  /\ Size(xml) - 3 < MaxItems
  /\ \/ xml' \in Added({"state"}, RefPartElems)
     \/ xml' \in Added({"scxml"}, {Elem("datamodel", NoAttrs)})
     \/ xml' \in Added({"datamodel"}, DataElems)
  /\ UNCHANGED <<opts, pc, pres, vres, out, rres>>

SetRefInitial ==
  /\ pc = "build"
  /\ Size(xml) - 3 < MaxItems
  /\ "initial" \notin DOMAIN xml.attrs
  /\ \E v \in RefInitialChoices : xml' = [xml EXCEPT !.attrs = @ @@ ("initial" :> v)]
  /\ UNCHANGED <<opts, pc, pres, vres, out, rres>>

InitRefs == InitFrom(RefStarts)

NextRefs ==
  \/ AddRefStateLike
  \/ AddRefTransition
  \/ AddRefPart
  \/ SetRefInitial
  \/ Parse
  \/ Validate

SpecRefs == InitRefs /\ [][NextRefs]_vars

(* ----------------- what the claims say about a Document ----------------- *)

Doc == pres.val

Validated == pc = "validated"

(* the state-like elements of a list, at every depth, in pre-order document order *)
RECURSIVE PreOrder(_)
PreOrder(states) ==
  IF states = <<>> THEN <<>>
  ELSE LET s == Head(states)
       IN <<s>> \o (IF s.kind \in {"State", "Parallel"} THEN PreOrder(s.children) ELSE <<>>)
               \o PreOrder(Tail(states))

RECURSIVE Concat(_)
Concat(ss) == IF ss = <<>> THEN <<>> ELSE Head(ss) \o Concat(Tail(ss))

Map(f(_), seq) == [i \in 1..Len(seq) |-> f(seq[i])]

(* the ids the state-like elements carry, in pre-order *)
IdsInOrder(d) == Concat(Map(LAMBDA n : n.id, PreOrder(d.states)))

DeclaredIds(d) == {IdsInOrder(d)[i] : i \in 1..Len(IdsInOrder(d))}

Distinct(seq) == \A i, j \in 1..Len(seq) : i # j => seq[i] # seq[j]

Repeats(seq, j) == \E i \in 1..(j - 1) : seq[i] = seq[j]

(* the first element of seq that equals an earlier one *)
FirstRepeat(seq) ==
  seq[CHOOSE j \in 1..Len(seq) : Repeats(seq, j) /\ \A k \in 1..(j - 1) : ~Repeats(seq, k)]

(* the tokens of the targets of a list of transitions, in order *)
Tokens(transitions) ==
  Concat(Map(LAMBDA t : IF t.target = None THEN <<>> ELSE split_whitespace(t.target[1]),
             transitions))

(* the transitions of State and Parallel elements and the default transitions of *)
(* History elements, in pre-order                                                *)
ElementTransitions(d) ==
  Concat(Map(LAMBDA n : CASE n.kind \in {"State", "Parallel"} -> n.transitions
                          [] n.kind = "History" -> n.transition
                          [] OTHER -> <<>>,
             PreOrder(d.states)))

(* the transitions of the <initial> children of State elements, in pre-order *)
InitialTransitions(d) ==
  Concat(Map(LAMBDA n : IF n.kind = "State" /\ n.initial_element # None
                        THEN <<n.initial_element[1].transition>> ELSE <<>>,
             PreOrder(d.states)))

Unresolved(d, toks) == SelectSeq(toks, LAMBDA t : t \notin DeclaredIds(d))

DataIds(d) == Map(LAMBDA x : x.id, d.datamodel_elements)

IdsUnique(d) == Distinct(IdsInOrder(d))

TargetsResolve(d) == Unresolved(d, Tokens(ElementTransitions(d))) = <<>>

InitialTargetsResolve(d) == Unresolved(d, Tokens(InitialTransitions(d))) = <<>>

RootInitialResolves(d) == d.initial = None \/ d.initial[1] \in DeclaredIds(d)

(* -------------------------------- C1 ----------------------------------- *)

(* C1 as stated: when no two state-like elements carry the same id and every token *)
(* of every transition target is a state-like id, validate(parse(doc)) is Ok.     *)
C1_UniqueAndResolvableIsOk ==
  (Validated /\ IdsUnique(Doc) /\ TargetsResolve(Doc) /\ InitialTargetsResolve(Doc))
    => vres = VOk

(* C1 amended: when, in addition, the top-level initial is absent or a state-like *)
(* id and the data ids are pairwise distinct, validate(parse(doc)) is Ok.         *)
C1_ValidDocumentIsOk ==
  (Validated /\ IdsUnique(Doc) /\ TargetsResolve(Doc) /\ InitialTargetsResolve(Doc)
     /\ RootInitialResolves(Doc) /\ Distinct(DataIds(Doc)))
    => vres = VOk

C1_Witness ==
  /\ Validated /\ IdsUnique(Doc) /\ TargetsResolve(Doc)
  /\ RootInitialResolves(Doc) /\ Distinct(DataIds(Doc))
  /\ Doc.initial # None
  /\ Len(Tokens(ElementTransitions(Doc))) >= 1
  /\ vres = VOk

(* -------------------------------- C2 ----------------------------------- *)

(* C2: if two state-like elements, of any variants and at any depths, carry the  *)
(* same id, validate returns DuplicateId of the first id, in pre-order, that     *)
(* equals an id met earlier.                                                     *)
C2_DuplicateIdReported ==
  (Validated /\ ~IdsUnique(Doc)) => vres = DuplicateId(FirstRepeat(IdsInOrder(Doc)))

C2_Witness ==
  /\ Validated
  /\ \E i, j \in 1..Len(PreOrder(Doc.states)) :
       LET m == PreOrder(Doc.states)[i]
           n == PreOrder(Doc.states)[j]
       IN /\ i < j /\ m.id # None /\ m.id = n.id /\ m.kind # n.kind
          /\ m.kind \in {"State", "Parallel"} /\ Len(m.children) > 0 /\ j = i + 1
  /\ vres.tag = "DuplicateId"

(* -------------------------------- C3 ----------------------------------- *)

(* C3: with pairwise distinct state-like ids, validate returns InvalidTarget(t)  *)
(* whenever a transition of a State or Parallel, or the default transition of a  *)
(* History, has a token that is no state-like id; t is the first such token in   *)
(* pre-order.                                                                    *)
C3_InvalidTargetReported ==
  (Validated /\ IdsUnique(Doc) /\ ~TargetsResolve(Doc))
    => vres = InvalidTarget(Unresolved(Doc, Tokens(ElementTransitions(Doc)))[1])

(* a target of two tokens of which exactly one resolves is rejected *)
C3_Witness ==
  /\ Validated /\ IdsUnique(Doc)
  /\ \E i \in 1..Len(ElementTransitions(Doc)) :
       LET toks == Tokens(<<ElementTransitions(Doc)[i]>>)
       IN Len(toks) = 2 /\ Len(Unresolved(Doc, toks)) = 1
  /\ vres.tag = "InvalidTarget"

(* -------------------------------- C4 ----------------------------------- *)

(* C4: if validate returns Ok, every token of the transition target of every     *)
(* <initial> child of a State is the id of a state-like element.                 *)
C4_InitialElementTargetsResolve ==
  (Validated /\ vres = VOk) => InitialTargetsResolve(Doc)

(* -------------------------------- C5 ----------------------------------- *)

(* C5: with unique state-like ids and resolving transition targets, validate      *)
(* returns InvalidTarget(initial) when the top-level initial is present and no    *)
(* state-like id, and does not fail with InvalidTarget otherwise.                 *)
C5_RootInitialChecked ==
  (Validated /\ IdsUnique(Doc) /\ TargetsResolve(Doc))
    => IF RootInitialResolves(Doc)
       THEN vres.tag # "InvalidTarget"
       ELSE vres = InvalidTarget(Doc.initial[1])

C5_Witness ==
  /\ Validated /\ IdsUnique(Doc) /\ TargetsResolve(Doc)
  /\ Len(Doc.states) > 0
  /\ ~RootInitialResolves(Doc)
  /\ vres.tag = "InvalidTarget"

(* -------------------------------- C6 ----------------------------------- *)

(* C6: when the earlier checks pass, validate returns DuplicateId(id) iff two     *)
(* data items share an id, id being the first repeated one; a data id equal to a  *)
(* state-like id is no error.                                                     *)
C6_DataIdsChecked ==
  (Validated /\ IdsUnique(Doc) /\ TargetsResolve(Doc) /\ RootInitialResolves(Doc))
    => IF Distinct(DataIds(Doc))
       THEN vres = VOk
       ELSE vres = DuplicateId(FirstRepeat(DataIds(Doc)))

C6_Witness ==
  /\ Validated /\ IdsUnique(Doc) /\ TargetsResolve(Doc) /\ RootInitialResolves(Doc)
  /\ ~Distinct(DataIds(Doc))
  /\ vres.tag = "DuplicateId"

(* -------------------------------- C7 ----------------------------------- *)

Parsed == pc = "parsed"

Strict == ~opts.relaxed_namespace

ErrKind == IF pres.ok THEN "" ELSE pres.err[1]

(* no <data> without id anywhere under the root's <datamodel> children *)
ChildrenParse ==
  \A i \in 1..Len(xml.children) :
    xml.children[i].tag = "datamodel" =>
      \A j \in 1..Len(xml.children[i].children) :
        xml.children[i].children[j].tag = "data" =>
          "id" \in DOMAIN xml.children[i].children[j].attrs

(* C7: in strict mode parse succeeds only if the root's namespace is the SCXML URI *)
(* and a present, different namespace fails with InvalidNamespace; in relaxed mode *)
(* the namespace, missing, correct or mismatched, never makes parse fail.          *)
C7_NamespaceStrictness ==
  Parsed =>
    /\ (Strict /\ pres.ok) => xml.ns = Some(SCXML_NS)
    /\ (Strict /\ xml.ns \notin {None, Some(SCXML_NS)}) => ErrKind = "InvalidNamespace"
    /\ ~Strict => ErrKind # "InvalidNamespace"
    /\ (~Strict /\ xml.tag = "scxml" /\ attribute(xml, "version") = Some(V10) /\ ChildrenParse)
         => pres.ok

C7_Witness ==
  /\ Parsed /\ ~Strict /\ xml.ns = Some(OTHER_NS) /\ Len(xml.children) > 0 /\ pres.ok

(* -------------------------------- C8 ----------------------------------- *)

(* C8 as stated: whatever the options, a root whose name is not "scxml" fails with *)
(* InvalidStructure.                                                               *)
C8_WrongRootIsInvalidStructure ==
  (Parsed /\ xml.tag # "scxml") => ErrKind = "InvalidStructure"

(* C8 amended: a root whose name is not "scxml" always fails: with InvalidNamespace *)
(* in strict mode when its namespace is not the SCXML URI (the namespace is checked *)
(* first), with InvalidStructure otherwise.                                         *)
C8_WrongRootFails ==
  (Parsed /\ xml.tag # "scxml")
    => ErrKind = IF Strict /\ xml.ns # Some(SCXML_NS) THEN "InvalidNamespace"
                 ELSE "InvalidStructure"

C8_Witness ==
  /\ Parsed /\ xml.tag # "scxml" /\ Strict /\ xml.ns = None
  /\ attribute(xml, "version") = Some(V10)
  /\ ErrKind = "InvalidNamespace"

(* -------------------------------- C9 ----------------------------------- *)

(* C9: with root <scxml> and the namespace check passed, a version other than "1.0" *)
(* fails with InvalidStructure whatever the children are; every Document returned   *)
(* has version "1.0".                                                               *)
C9_VersionGate ==
  Parsed =>
    /\ (/\ xml.tag = "scxml"
        /\ (~Strict \/ xml.ns = Some(SCXML_NS))
        /\ attribute(xml, "version") \notin {None, Some(V10)})
         => ErrKind = "InvalidStructure"
    /\ pres.ok => pres.val.version = V10

(* the version is wrong and a child would itself be a parse error *)
C9_Witness ==
  /\ Parsed /\ xml.tag = "scxml" /\ attribute(xml, "version") = Some(V20)
  /\ ~ChildrenParse
  /\ ErrKind = "InvalidStructure"

(* -------------------------------- C10 ---------------------------------- *)

Reparsed == pc = "reparsed"

EmittedExecutables(execs) ==
  \A i \in 1..Len(execs) : execs[i].kind \in {"Raise", "Script", "Assign", "Log"}

EmittedTransition(t) == EmittedExecutables(t.executables)

(* the state-like element uses only what serialize_state_like writes *)
Emitted(n) ==
  CASE n.kind = "State" ->
         /\ EmittedExecutables(n.onentry) /\ EmittedExecutables(n.onexit)
         /\ \A i \in 1..Len(n.transitions) : EmittedTransition(n.transitions[i])
         /\ n.initial_element # None => EmittedTransition(n.initial_element[1].transition)
         /\ \A i \in 1..Len(n.invokes) :
              n.invokes[i].finalize = None /\ n.invokes[i].content = None
    [] n.kind = "Parallel" ->
         n.transitions = <<>> /\ n.onentry = <<>> /\ n.onexit = <<>> /\ n.invokes = <<>>
    [] n.kind = "Final" -> n.onentry = <<>> /\ n.onexit = <<>>
    [] n.kind = "History" -> n.transition = None

Serializable(d) == \A i \in 1..Len(PreOrder(d.states)) : Emitted(PreOrder(d.states)[i])

RoundTrips == \A b \in BOOLEAN : rres[b].ok /\ rres[b].val = Doc

(* C10: for every Document built only from the constructs the serializer emits,  *)
(* parse(to_xml(d)) succeeds in strict and in relaxed mode and equals d.         *)
C10_RoundTrip == (Reparsed /\ Serializable(Doc)) => RoundTrips

(* what holds in its place: the round trip of the emitted constructs when no     *)
(* attribute value holds a quote                                                 *)
C10_RoundTripWithoutQuotes ==
  (Reparsed /\ Serializable(Doc) /\ WellFormed(out)) => RoundTrips

(* -------------------------------- C11 ---------------------------------- *)

(* C11: the serializer writes every field: for every Document returned by a      *)
(* successful parse, parse(to_xml(d)) equals d. Stated on the Documents whose    *)
(* text holds no quote inside an attribute value, which C10 is about.            *)
C11_EveryFieldRoundTrips == (Reparsed /\ WellFormed(out)) => RoundTrips

(* -------------------------------- C12 ---------------------------------- *)

(* C12: for every Document returned by a successful parse, the strict parse of   *)
(* to_xml(d) succeeds, whatever attribute values d holds.                        *)
C12_OutputParsesStrictly == Reparsed => rres[FALSE].ok

(* -------------------------------- C13 ---------------------------------- *)

Serialized == pc = "serialized"

AttrNames(tok) == [k \in 1..Len(tok.attrs) |-> tok.attrs[k][1]]

AttrValue(tok, name) ==
  IF \E k \in 1..Len(tok.attrs) : tok.attrs[k][1] = name
  THEN Some(tok.attrs[CHOOSE k \in 1..Len(tok.attrs) : tok.attrs[k][1] = name][2])
  ELSE None

StartsElement(tok) == tok.t \in {"open", "empty"}

(* the start tags written at the first indent: the children of the root *)
RootChildTags(toks) == SelectSeq(toks, LAMBDA tok : StartsElement(tok) /\ tok.ind = 1)

DataTags(toks) == SelectSeq(toks, LAMBDA tok : StartsElement(tok) /\ tok.name = "data")

TagOf(kind) ==
  CASE kind = "State" -> "state" [] kind = "Parallel" -> "parallel"
    [] kind = "Final" -> "final" [] kind = "History" -> "history"

(* the start tags the top-level list of d asks for, after the optional <datamodel> *)
ExpectedRootChildren(d) ==
  (IF d.datamodel_elements = <<>> THEN <<>> ELSE <<(<<"datamodel", None>>)>>)
    \o [i \in 1..Len(d.states) |-> <<TagOf(d.states[i].kind), d.states[i].id>>]

(* C13: to_xml returns a text for every Document, valid or not: the declaration, *)
(* the root start tag with xmlns, version, initial if present, datamodel if      *)
(* present, in this order, then the <datamodel> section iff there is a data      *)
(* item, then the top-level state-like elements in list order, then </scxml>.    *)
C13_TextLayout ==
  Serialized =>
    /\ out[1] = DeclTok
    /\ out[2].t = "open" /\ out[2].name = "scxml" /\ out[2].ind = 0
    /\ AttrNames(out[2]) =
         <<"xmlns", "version">>
           \o (IF Doc.initial = None THEN <<>> ELSE <<"initial">>)
           \o (IF Doc.datamodel = None THEN <<>> ELSE <<"datamodel">>)
    /\ AttrValue(out[2], "xmlns") = Some(<<SCXML_NS>>)
    /\ AttrValue(out[2], "version") = Some(Doc.version)
    /\ AttrValue(out[2], "initial") = Doc.initial
    /\ AttrValue(out[2], "datamodel") = Doc.datamodel
    /\ (out[3] = OpenTok(1, "datamodel", <<>>)) <=> (Doc.datamodel_elements # <<>>)
    /\ [i \in 1..Len(RootChildTags(out)) |->
          <<RootChildTags(out)[i].name, AttrValue(RootChildTags(out)[i], "id")>>]
         = ExpectedRootChildren(Doc)
    /\ [i \in 1..Len(DataTags(out)) |-> AttrValue(DataTags(out)[i], "id")]
         = [i \in 1..Len(Doc.datamodel_elements) |-> Some(Doc.datamodel_elements[i].id)]
    /\ out[Len(out)] = EndTok(0, "scxml")
    /\ \A i \in 3..(Len(out) - 1) : out[i].ind >= 1 \/ out[i].t \in {"text", "end"}

(* a Document that fails validation, with both optional root attributes *)
C13_Witness ==
  /\ Serialized /\ Doc.initial # None /\ Doc.datamodel # None /\ Len(Doc.states) > 0
  /\ validate(Doc) # VOk
  /\ Len(out) >= 4

(* -------------------------------- C14 ---------------------------------- *)

(* the state-like element has no child element and no content *)
NothingInside(n) ==
  CASE n.kind = "State" ->
         /\ n.transitions = <<>> /\ n.onentry = <<>> /\ n.onexit = <<>>
         /\ n.children = <<>> /\ n.invokes = <<>> /\ n.initial_element = None
    [] n.kind = "Parallel" ->
         /\ n.transitions = <<>> /\ n.onentry = <<>> /\ n.onexit = <<>>
         /\ n.children = <<>> /\ n.invokes = <<>>
    [] n.kind = "Final" -> n.onentry = <<>> /\ n.onexit = <<>>
    [] n.kind = "History" -> n.transition = None

(* the start tags of the state-like elements: to_xml writes them in pre-order *)
StateLikeTags(toks) ==
  SelectSeq(toks, LAMBDA tok : StartsElement(tok) /\ IsStateLikeTag(tok.name))

(* C14: an element with no children and no content is written as one self-closing *)
(* tag: every State, Parallel, Final and History with nothing inside, and no      *)
(* transition, invoke, data item or script is written as a start tag directly     *)
(* followed by its end tag.                                                       *)
C14_SelfClosingWhenEmpty ==
  Serialized =>
    /\ Len(StateLikeTags(out)) = Len(PreOrder(Doc.states))
    /\ \A i \in 1..Len(PreOrder(Doc.states)) :
         /\ StateLikeTags(out)[i].name = TagOf(PreOrder(Doc.states)[i].kind)
         /\ NothingInside(PreOrder(Doc.states)[i]) => StateLikeTags(out)[i].t = "empty"
    /\ \A i \in 1..(Len(out) - 1) :
         (out[i].t = "open" /\ out[i].name \in {"transition", "invoke", "data", "script"})
           => out[i + 1].t # "end"

(* what holds in its place: the same with Parallel left out *)
C14_SelfClosingExceptParallel ==
  Serialized =>
    /\ Len(StateLikeTags(out)) = Len(PreOrder(Doc.states))
    /\ \A i \in 1..Len(PreOrder(Doc.states)) :
         /\ StateLikeTags(out)[i].name = TagOf(PreOrder(Doc.states)[i].kind)
         /\ (PreOrder(Doc.states)[i].kind # "Parallel" /\ NothingInside(PreOrder(Doc.states)[i]))
              => StateLikeTags(out)[i].t = "empty"
         /\ PreOrder(Doc.states)[i].kind = "Parallel" => StateLikeTags(out)[i].t = "open"
    /\ \A i \in 1..(Len(out) - 1) :
         (out[i].t = "open" /\ out[i].name \in {"transition", "invoke", "data", "script"})
           => out[i + 1].t # "end"

(* -------------------------------- C15 ---------------------------------- *)

(* the element children before the first <else>, all of them when there is none *)
BeforeElse(ch) ==
  IF \E k \in 1..Len(ch) : ch[k].tag = "else"
  THEN SubSeq(ch, 1, (CHOOSE k \in 1..Len(ch) :
                        ch[k].tag = "else" /\ \A j \in 1..(k - 1) : ch[j].tag # "else") - 1)
  ELSE ch

(* the element children after the first <else>, none when there is none *)
AfterElse(ch) == SubSeq(ch, Len(BeforeElse(ch)) + 2, Len(ch))

NotElse(e) == e.tag # "else"

(* the executable the claims ask for, given the element; attrs as the parser reads them *)
RECURSIVE Branches(_)
Branches(node) ==
  CASE node.tag = "if" ->
         [kind |-> "If", cond |-> unwrap_or(attribute(node, "cond"), <<>>),
          then |-> [i \in 1..Len(BeforeElse(node.children)) |->
                      Branches(BeforeElse(node.children)[i])],
          else_ |-> [i \in 1..Len(SelectSeq(AfterElse(node.children), NotElse)) |->
                       Branches(SelectSeq(AfterElse(node.children), NotElse)[i])]]
    [] node.tag = "foreach" ->
         [kind |-> "Foreach", array |-> unwrap_or(attribute(node, "array"), <<>>),
          item |-> unwrap_or(attribute(node, "item"), <<>>), index |-> attribute(node, "index"),
          body |-> [i \in 1..Len(node.children) |-> Branches(node.children[i])]]
    [] OTHER -> parse_single_executable(node).val

(* the list the executables of the first block of the first element were parsed to: *)
(* the block is its first child, or the <finalize> in it when that is an <invoke>   *)
FirstBlock(d) ==
  CASE xml.children[1].children[1].tag = "onentry" -> d.states[1].onentry
    [] xml.children[1].children[1].tag = "onexit" -> d.states[1].onexit
    [] xml.children[1].children[1].tag = "transition" -> d.states[1].transitions[1].executables
    [] xml.children[1].children[1].tag = "invoke" ->
         d.states[1].invokes[1].finalize[1].executables

FirstBlockSource ==
  IF xml.children[1].children[1].tag = "invoke"
  THEN xml.children[1].children[1].children[1].children
  ELSE xml.children[1].children[1].children

(* C15: the children of an <if> before its first <else/> are parsed, in order,   *)
(* into then, those after it into else, the <else/> marker into neither; with no *)
(* <else/> all are in then; the same inside nested <if> and <foreach>.           *)
C15_BranchPartition ==
  Parsed =>
    /\ pres.ok
    /\ FirstBlock(Doc) = [i \in 1..Len(FirstBlockSource) |-> Branches(FirstBlockSource[i])]

(* <if><a/><else/><b/></if> *)
C15_Witness ==
  /\ Parsed /\ pres.ok
  /\ Len(FirstBlockSource[1].children) = 3
  /\ FirstBlockSource[1].children[2].tag = "else"
  /\ Len(FirstBlock(Doc)[1].then) = 1 /\ Len(FirstBlock(Doc)[1].else_) = 1
  /\ FirstBlock(Doc)[1].then # FirstBlock(Doc)[1].else_

(* an <if> with a sub-executable of its own, nested in the else branch of an <if> *)
C15_NestedWitness ==
  /\ Parsed /\ pres.ok
  /\ FirstBlock(Doc)[1].then = <<>>
  /\ Len(FirstBlock(Doc)[1].else_) = 1
  /\ FirstBlock(Doc)[1].else_[1].kind = "If"
  /\ Len(FirstBlock(Doc)[1].else_[1].then) = 1

(* -------------------------------- C16 ---------------------------------- *)

HasChild(node, tag) == \E i \in 1..Len(node.children) : node.children[i].tag = tag

(* the error the claim names for the element c, a child of parent, if c is one of *)
(* the three violations; top says that parent is a child of the root              *)
Violation(parent, c, top) ==
  IF c.tag = "data" /\ top /\ parent.tag = "datamodel" /\ attribute(c, "id") = None
  THEN <<(<<"MissingAttribute", "data id">>)>>
  ELSE IF c.tag = "param" /\ parent.tag = "invoke" /\ attribute(c, "name") = None
  THEN <<(<<"MissingAttribute", "param name">>)>>
  ELSE IF c.tag = "initial" /\ parent.tag = "state" /\ ~HasChild(c, "transition")
  THEN <<(<<"InvalidStructure", "Initial must have a transition">>)>>
  ELSE <<>>

(* the violations anywhere below node, in document order; depth is 0 at the root *)
RECURSIVE ViolationsBelow(_, _)
ViolationsBelow(node, depth) ==
  Concat([i \in 1..Len(node.children) |->
            Violation(node, node.children[i], depth = 1)
              \o ViolationsBelow(node.children[i], depth + 1)])

(* the children of node that its sub-parser hands to another sub-parser *)
Dispatched(node, depth) ==
  CASE depth = 0 -> {"state", "parallel", "final", "history", "datamodel"}
    [] node.tag = "state" -> {"state", "parallel", "final", "history", "initial", "invoke"}
    [] node.tag = "parallel" -> {"state", "parallel", "final", "history", "invoke"}
    [] node.tag = "datamodel" /\ depth = 1 -> {"data"}
    [] node.tag = "invoke" -> {"param"}
    [] OTHER -> {}

(* the violations in the elements the parser reaches, in document order *)
RECURSIVE ViolationsReached(_, _)
ViolationsReached(node, depth) ==
  Concat([i \in 1..Len(node.children) |->
            IF node.children[i].tag \in Dispatched(node, depth)
            THEN Violation(node, node.children[i], depth = 1)
                   \o ViolationsReached(node.children[i], depth + 1)
            ELSE <<>>])

(* C16 as stated: if anywhere in the document, at any depth, a <data> of a top-   *)
(* level <datamodel> has no id, a <param> of an <invoke> no name or an <initial>  *)
(* of a <state> no <transition>, parse returns no Document but the error of the   *)
(* first such violation in document order.                                        *)
C16_AnyViolationAborts ==
  (Parsed /\ ViolationsBelow(xml, 0) # <<>>)
    => (~pres.ok /\ pres.val = <<>> /\ pres.err = ViolationsBelow(xml, 0)[1])

(* C16 amended: the same for the violations in elements the parser reaches, that  *)
(* is, below the root through children their parent's sub-parser dispatches on;   *)
(* with no such violation the parse of a well-formed root succeeds.               *)
C16_ReachedViolationAborts ==
  Parsed =>
    IF ViolationsReached(xml, 0) = <<>> THEN pres.ok
    ELSE ~pres.ok /\ pres.val = <<>> /\ pres.err = ViolationsReached(xml, 0)[1]

(* two violations of different kinds, the first one nested *)
C16_Witness ==
  /\ Parsed
  /\ Len(ViolationsReached(xml, 0)) >= 2
  /\ ViolationsReached(xml, 0)[1] # ViolationsReached(xml, 0)[2]
  /\ ~pres.ok /\ pres.err = ViolationsReached(xml, 0)[1]

(* -------------------------------- C17 ---------------------------------- *)

ExecutableTags == {"raise", "if", "foreach", "send", "script", "assign", "log", "cancel"}

(* the tags the sub-parser of an element dispatches on; depth is 0 at the root *)
Recognized(node, depth) ==
  CASE depth = 0 -> {"state", "parallel", "final", "history", "datamodel"}
    [] node.tag = "state" -> CommonTags \cup {"initial"}
    [] node.tag = "parallel" -> CommonTags
    [] node.tag = "final" -> {"onentry", "onexit"}
    [] node.tag \in {"history", "initial"} -> {"transition"}
    [] node.tag = "invoke" -> {"param", "finalize", "content"}
    [] node.tag = "datamodel" -> {"data"}
    [] OTHER -> {}

(* the document without the element children no sub-parser dispatches on; the    *)
(* executable content is left as it is                                            *)
RECURSIVE Strip(_, _)
Strip(node, depth) ==
  IF node.tag \in ExecutableParents THEN node
  ELSE [node EXCEPT !.children =
          LET kept == SelectSeq(node.children, LAMBDA c : c.tag \in Recognized(node, depth))
          IN [i \in 1..Len(kept) |-> Strip(kept[i], depth + 1)]]

Other(tag) == [kind |-> "Other", name |-> tag]

(* every element of src with a tag outside ExecutableTags is Other(tag) at the   *)
(* same place of execs, also inside <foreach> and <if>; inside an <if> the       *)
(* places are those of then followed by else                                     *)
RECURSIVE KeptAsOther(_, _)
KeptAsOther(src, execs) ==
  /\ Len(execs) = Len(src)
  /\ \A i \in 1..Len(src) :
       CASE src[i].tag \notin ExecutableTags -> execs[i] = Other(src[i].tag)
         [] src[i].tag = "foreach" -> KeptAsOther(src[i].children, execs[i].body)
         [] src[i].tag = "if" -> KeptAsOther(src[i].children, execs[i].then \o execs[i].else_)
         [] OTHER -> TRUE

(* the same, the <else> markers of an <if> taken out of its children *)
RECURSIVE KeptAsOtherButElse(_, _)
KeptAsOtherButElse(src, execs) ==
  /\ Len(execs) = Len(src)
  /\ \A i \in 1..Len(src) :
       CASE src[i].tag \notin ExecutableTags -> execs[i] = Other(src[i].tag)
         [] src[i].tag = "foreach" -> KeptAsOtherButElse(src[i].children, execs[i].body)
         [] src[i].tag = "if" ->
              KeptAsOtherButElse(SelectSeq(src[i].children, NotElse),
                                 execs[i].then \o execs[i].else_)
         [] OTHER -> TRUE

(* C17 as stated: no unrecognized element makes parse fail; one that is a child  *)
(* of the root, a state, a parallel, a final or an invoke leaves no trace in the *)
(* Document; one inside executable content, with a tag other than raise, if,     *)
(* foreach, send, script, assign, log, cancel, is kept as Other(tag) in place.   *)
C17_UnrecognizedSkippedOrKept ==
  Parsed =>
    /\ pres.ok
    /\ pres = parse_scxml(Strip(xml, 0))
    /\ xml.children[1].tag # "datamodel" => KeptAsOther(FirstBlockSource, FirstBlock(Doc))

(* C17 amended: the same, except that an <else> child of an <if> is the branch   *)
(* marker and is not kept; an <else> anywhere else is kept as Other("else").     *)
C17_UnrecognizedSkippedOrKeptButElse ==
  Parsed =>
    /\ pres.ok
    /\ pres = parse_scxml(Strip(xml, 0))
    /\ xml.children[1].tag # "datamodel"
         => KeptAsOtherButElse(FirstBlockSource, FirstBlock(Doc))

(* an unknown element and a misplaced one are skipped, another one is kept *)
C17_Witness ==
  /\ Parsed /\ pres.ok
  /\ Strip(xml, 0) # xml
  /\ Count(xml) - Count(Strip(xml, 0)) >= 2
  /\ xml.children[1].tag # "datamodel"
  /\ \E i \in 1..Len(FirstBlock(Doc)) : FirstBlock(Doc)[i].kind = "Other"

(* -------------------------------- C18 ---------------------------------- *)

SHALLOW == <<"s", "h", "a", "l", "l", "o", "w">>

Histories(d) == SelectSeq(PreOrder(d.states), LAMBDA n : n.kind = "History")

(* C18: every History of a Document returned by a successful parse has type      *)
(* "shallow" or "deep".                                                          *)
C18_HistoryTypeShallowOrDeep ==
  (Parsed /\ pres.ok) =>
    \A i \in 1..Len(Histories(Doc)) : Histories(Doc)[i].type_ \in {SHALLOW, DEEP}

(* the state-like elements the parser reaches below a list of children, in pre-order *)
RECURSIVE SourcePreOrder(_)
SourcePreOrder(ch) ==
  Concat([i \in 1..Len(ch) |->
            IF ~IsStateLikeTag(ch[i].tag) THEN <<>>
            ELSE <<ch[i]>> \o (IF ch[i].tag \in {"state", "parallel"}
                               THEN SourcePreOrder(ch[i].children) ELSE <<>>)])

SourceHistories == SelectSeq(SourcePreOrder(xml.children), LAMBDA e : e.tag = "history")

(* what holds in its place: the type is "shallow" when the attribute is omitted  *)
(* and the attribute's value, whatever it is, otherwise; the default transition  *)
(* is there iff the <history> has a <transition> child                           *)
C18_HistoryTypeAsWritten ==
  (Parsed /\ pres.ok) =>
    /\ Len(Histories(Doc)) = Len(SourceHistories)
    /\ \A i \in 1..Len(SourceHistories) :
         /\ Histories(Doc)[i].type_ =
              (IF "type" \in DOMAIN SourceHistories[i].attrs
               THEN SourceHistories[i].attrs["type"] ELSE SHALLOW)
         /\ (Histories(Doc)[i].transition # None) <=> HasChild(SourceHistories[i], "transition")

(* -------------------------------- C19 ---------------------------------- *)

WithTag(ch, tags) == SelectSeq(ch, LAMBDA c : c.tag \in tags)

Last(seq) == seq[Len(seq)]

(* the executables of the element children of a block, one per child, in order *)
InOrder(block) == [i \in 1..Len(block.children) |-> Branches(block.children[i])]

(* the executables of all the blocks of one tag under node, block after block *)
BlocksInOrder(node, tag) ==
  Concat([i \in 1..Len(WithTag(node.children, {tag})) |->
            InOrder(WithTag(node.children, {tag})[i])])

TransitionInOrder(t) == [parse_transition(t).val EXCEPT !.executables = InOrder(t)]

TransitionsInOrder(node) ==
  [i \in 1..Len(WithTag(node.children, {"transition"})) |->
     TransitionInOrder(WithTag(node.children, {"transition"})[i])]

InvokeInOrder(n) ==
  [type_ |-> unwrap_or(attribute(n, "type"), <<>>), src |-> attribute(n, "src"),
   id |-> attribute(n, "id"),
   params |-> [i \in 1..Len(WithTag(n.children, {"param"})) |->
                 parse_param(WithTag(n.children, {"param"})[i]).val],
   finalize |-> IF HasChild(n, "finalize")
                THEN Some([executables |-> InOrder(Last(WithTag(n.children, {"finalize"})))])
                ELSE None,
   content |-> IF HasChild(n, "content")
               THEN Some(parse_content(Last(WithTag(n.children, {"content"}))).val)
               ELSE None]

InvokesInOrder(node) ==
  [i \in 1..Len(WithTag(node.children, {"invoke"})) |->
     InvokeInOrder(WithTag(node.children, {"invoke"})[i])]

StateLikeTags4 == {"state", "parallel", "final", "history"}

(* the state-like element an element stands for, its lists being the children of *)
(* each kind taken in document order                                             *)
RECURSIVE StateLikeInOrder(_)
StateLikeInOrder(n) ==
  CASE n.tag = "state" ->
         [kind |-> "State", id |-> attribute(n, "id"), initial |-> attribute(n, "initial"),
          initial_element |->
            IF HasChild(n, "initial")
            THEN Some([id |-> attribute(Last(WithTag(n.children, {"initial"})), "id"),
                       transition |->
                         TransitionsInOrder(Last(WithTag(n.children, {"initial"})))[1]])
            ELSE None,
          transitions |-> TransitionsInOrder(n),
          onentry |-> BlocksInOrder(n, "onentry"), onexit |-> BlocksInOrder(n, "onexit"),
          children |-> [i \in 1..Len(WithTag(n.children, StateLikeTags4)) |->
                          StateLikeInOrder(WithTag(n.children, StateLikeTags4)[i])],
          invokes |-> InvokesInOrder(n)]
    [] n.tag = "parallel" ->
         [kind |-> "Parallel", id |-> attribute(n, "id"),
          transitions |-> TransitionsInOrder(n),
          onentry |-> BlocksInOrder(n, "onentry"), onexit |-> BlocksInOrder(n, "onexit"),
          children |-> [i \in 1..Len(WithTag(n.children, StateLikeTags4)) |->
                          StateLikeInOrder(WithTag(n.children, StateLikeTags4)[i])],
          invokes |-> InvokesInOrder(n)]
    [] n.tag = "final" ->
         [kind |-> "Final", id |-> attribute(n, "id"),
          onentry |-> BlocksInOrder(n, "onentry"), onexit |-> BlocksInOrder(n, "onexit")]
    [] n.tag = "history" ->
         [kind |-> "History", id |-> attribute(n, "id"),
          type_ |-> unwrap_or(attribute(n, "type"), SHALLOW),
          transition |-> IF HasChild(n, "transition")
                         THEN Some(TransitionsInOrder(n)[1]) ELSE None]

DataItem(e) ==
  [id |-> e.attrs["id"], expr |-> attribute(e, "expr"), src |-> attribute(e, "src"),
   content |-> e.text]

(* the data items of all the <datamodel> children of the root, section after section *)
DataInOrder(root) ==
  Concat([i \in 1..Len(WithTag(root.children, {"datamodel"})) |->
            [j \in 1..Len(WithTag(WithTag(root.children, {"datamodel"})[i].children, {"data"}))
               |-> DataItem(WithTag(WithTag(root.children, {"datamodel"})[i].children,
                                    {"data"})[j])]])

(* C19: every list of the Document is in document order: the top-level state-like *)
(* elements, the data items, and at every depth the transitions, child state-like *)
(* elements and invokes of a State or Parallel are the source element's children  *)
(* of that kind, one by one; the executables of onentry, onexit, transition,      *)
(* foreach and finalize and the params of an invoke are in document order.        *)
C19_DocumentOrder ==
  Parsed =>
    /\ pres.ok
    /\ Doc.states = [i \in 1..Len(WithTag(xml.children, StateLikeTags4)) |->
                       StateLikeInOrder(WithTag(xml.children, StateLikeTags4)[i])]
    /\ Doc.datamodel_elements = DataInOrder(xml)

(* two different params in an invoke, parsed in the order written *)
C19_Witness ==
  /\ Parsed /\ pres.ok
  /\ Len(Doc.states) > 0 /\ Doc.states[1].kind = "State"
  /\ Len(Doc.states[1].invokes) = 1
  /\ Len(Doc.states[1].invokes[1].params) = 2
  /\ Doc.states[1].invokes[1].params[1] # Doc.states[1].invokes[1].params[2]

(* -------------------------------- C20 ---------------------------------- *)

(* the attributes read as text, "" when absent *)
TextAttrs(tag) ==
  CASE tag \in {"raise", "send"} -> {"event"}
    [] tag = "if" -> {"cond"}
    [] tag = "foreach" -> {"array", "item"}
    [] tag = "assign" -> {"location", "expr"}
    [] tag = "log" -> {"expr"}
    [] tag = "cancel" -> {"sendid"}
    [] tag = "invoke" -> {"type"}
    [] OTHER -> {}

(* the attributes read as an Option, None when absent *)
OptionAttrs(tag) ==
  CASE tag = "scxml" -> {"initial", "datamodel"}
    [] tag = "state" -> {"id", "initial"}
    [] tag \in {"parallel", "final", "history", "initial"} -> {"id"}
    [] tag = "transition" -> {"event", "cond", "target", "type"}
    [] tag = "invoke" -> {"src", "id"}
    [] tag = "param" -> {"expr", "location"}
    [] tag = "content" -> {"expr"}
    [] tag = "data" -> {"expr", "src"}
    [] tag = "foreach" -> {"index"}
    [] tag = "send" -> {"target"}
    [] tag = "script" -> {"src"}
    [] tag = "log" -> {"label"}
    [] OTHER -> {}

FieldOf(a) == IF a = "type" THEN "type_" ELSE a

(* the first element of the document, its first child and that one's first child *)
First1 == xml.children[1]

First2 == First1.children[1]

First3 == First2.children[1]

(* elements of the document paired with what they were parsed to: the root, the  *)
(* first element and the first children below it, and the first data item        *)
Located(d) ==
  {<<xml, d>>, <<First1, d.states[1]>>}
  \cup (IF First1.children = <<>>
        THEN {<<xml.children[2].children[1], d.datamodel_elements[1]>>}
        ELSE CASE First2.tag = "invoke" ->
                    {<<First2, d.states[1].invokes[1]>>}
                    \cup (IF First3.tag = "param"
                          THEN {<<First3, d.states[1].invokes[1].params[1]>>}
                          ELSE IF Len(WithTag(First2.children, {"content"})) = 1
                          THEN {<<First3, d.states[1].invokes[1].content[1]>>}
                          ELSE {})
               [] First2.tag = "parallel" ->
                    {<<First2, d.states[1].children[1]>>,
                     <<First3, d.states[1].children[1].transitions[1]>>}
               [] First2.tag = "history" ->
                    {<<First2, d.states[1].children[1]>>,
                     <<First3, d.states[1].children[1].transition[1]>>}
               [] First2.tag = "initial" ->
                    {<<First2, d.states[1].initial_element[1]>>,
                     <<First3, d.states[1].initial_element[1].transition>>}
               [] OTHER -> {<<First3, FirstBlock(d)[1]>>})

(* C20: but for the root's version, a data id and a param name, no absent         *)
(* attribute makes parse fail: an absent event, cond, array, item, location,      *)
(* expr of assign or log, sendid or invoke type is read as the empty text, an     *)
(* absent history type as "shallow", every other absent attribute as None (and a  *)
(* present one as its value, inside Some for the optional ones).                  *)
C20_AbsentAttributes ==
  Parsed =>
    /\ pres.ok
    /\ \A p \in Located(Doc) :
         /\ \A a \in TextAttrs(p[1].tag) :
              p[2][FieldOf(a)] = (IF a \in DOMAIN p[1].attrs THEN p[1].attrs[a] ELSE <<>>)
         /\ \A a \in OptionAttrs(p[1].tag) :
              p[2][FieldOf(a)] = (IF a \in DOMAIN p[1].attrs THEN Some(p[1].attrs[a]) ELSE None)
         /\ (p[1].tag = "history" /\ "type" \notin DOMAIN p[1].attrs) => p[2].type_ = SHALLOW

(* a <foreach> without any attribute, parsed *)
C20_Witness ==
  /\ Parsed /\ pres.ok
  /\ First2.tag \in {"onentry", "onexit"}
  /\ First3.tag = "foreach" /\ DOMAIN First3.attrs = {}
  /\ FirstBlock(Doc)[1].kind = "Foreach"
  /\ FirstBlock(Doc)[1].array = <<>> /\ FirstBlock(Doc)[1].index = None

(* -------------------------------- C21 ---------------------------------- *)

Cyclic(d, how) == initial_cycle_in(d.states, {}, how)

TargetTokens(e) ==
  IF "target" \in DOMAIN e.attrs THEN split_whitespace(e.attrs["target"]) ELSE <<>>

(* the tokens of the targets validate looks up, in the order the elements that *)
(* carry them are written in the document                                      *)
RECURSIVE TokensAsWritten(_)
TokensAsWritten(node) ==
  Concat([i \in 1..Len(node.children) |->
            LET c == node.children[i]
            IN CASE c.tag = "transition" /\ node.tag # "scxml" -> TargetTokens(c)
                 [] c.tag \in {"state", "parallel"} -> TokensAsWritten(c)
                 [] c.tag = "history" /\ first_transition(c.children) # 0 ->
                      TargetTokens(c.children[first_transition(c.children)])
                 [] OTHER -> <<>>])

(* the error of the earliest pass that finds one, given the first unresolved   *)
(* token of the second pass                                                    *)
ByPasses(d, unresolved) ==
  IF ~IdsUnique(d) THEN DuplicateId(FirstRepeat(IdsInOrder(d)))
  ELSE IF unresolved # <<>> THEN InvalidTarget(unresolved[1])
  ELSE IF ~RootInitialResolves(d) THEN InvalidTarget(d.initial[1])
  ELSE IF ~Distinct(DataIds(d)) THEN DuplicateId(FirstRepeat(DataIds(d)))
  ELSE VOk

(* C22 as stated: validate returns the error of the earliest pass, in the order  *)
(* duplicate state-like id, unresolved transition target, unresolved top-level   *)
(* initial, duplicate data id; within a pass it is the first violation in        *)
(* document order.                                                               *)
C22_FirstInDocumentOrder ==
  Validated => vres = ByPasses(Doc, Unresolved(Doc, TokensAsWritten(xml)))

(* C22 amended: within the second pass it is the first violation in pre-order of *)
(* the Document, where the transitions of an element come before the elements    *)
(* inside it, also when the text has them after.                                 *)
C22_FirstInDocumentPreOrder ==
  Validated => vres = ByPasses(Doc, Unresolved(Doc, Tokens(ElementTransitions(Doc))))

(* violations for three passes at once: the duplicate id is reported *)
C22_Witness ==
  /\ Validated
  /\ ~IdsUnique(Doc) /\ ~TargetsResolve(Doc)
  /\ Doc.initial # None /\ ~RootInitialResolves(Doc)
  /\ vres.tag = "DuplicateId"

(* an unresolved target and an unresolved top-level initial: the target is reported *)
C22_TargetWitness ==
  /\ Validated
  /\ IdsUnique(Doc) /\ ~TargetsResolve(Doc) /\ ~RootInitialResolves(Doc)
  /\ vres = InvalidTarget(sC) /\ Doc.initial # Some(sC)

(* an unresolved top-level initial and a duplicate data id: the initial is reported *)
C22_InitialWitness ==
  /\ Validated
  /\ ~RootInitialResolves(Doc) /\ ~Distinct(DataIds(Doc))
  /\ vres = InvalidTarget(Doc.initial[1])

(* -------------------------------- C23 ---------------------------------- *)

(* some transition of element n, of kind State or Parallel, has id in its target *)
Targets(n, id) ==
  /\ n.kind \in {"State", "Parallel"}
  /\ id # None
  /\ \E t \in 1..Len(Tokens(n.transitions)) : Tokens(n.transitions)[t] = id[1]

(* C23: the id of a state-like element, of whatever variant and wherever it is    *)
(* declared (before or after the transition, around it, inside it, under another  *)
(* parent), is never reported as an invalid target.                               *)
C23_DeclaredAnywhereResolves ==
  (Validated /\ vres.tag = "InvalidTarget") => vres.val \notin DeclaredIds(Doc)

(* a State targets a History declared later, inside a Parallel: accepted *)
C23_Witness ==
  /\ Validated /\ vres = VOk
  /\ \E i, j \in 1..Len(Doc.states) :
       /\ i < j
       /\ Doc.states[j].kind = "Parallel"
       /\ \E k \in 1..Len(Doc.states[j].children) :
            /\ Doc.states[j].children[k].kind = "History"
            /\ Targets(Doc.states[i], Doc.states[j].children[k].id)

(* a nested State targets the State around it, and that one its own id: accepted *)
C23_AncestorWitness ==
  /\ Validated /\ vres = VOk
  /\ \E i \in 1..Len(Doc.states) :
       /\ Targets(Doc.states[i], Doc.states[i].id)
       /\ \E k \in 1..Len(Doc.states[i].children) :
            Targets(Doc.states[i].children[k], Doc.states[i].id)

(* a State targets a Final inside it: accepted *)
C23_DescendantWitness ==
  /\ Validated /\ vres = VOk
  /\ \E i \in {n \in 1..Len(Doc.states) : Doc.states[n].kind = "State"} :
       \E k \in 1..Len(Doc.states[i].children) :
         /\ Doc.states[i].children[k].kind = "Final"
         /\ Targets(Doc.states[i], Doc.states[i].children[k].id)

(* a State targets, in one target, a State declared before it and itself: accepted *)
C23_EarlierWitness ==
  /\ Validated /\ vres = VOk
  /\ \E i, j \in 1..Len(Doc.states) :
       /\ i < j
       /\ Targets(Doc.states[j], Doc.states[i].id)
       /\ Targets(Doc.states[j], Doc.states[j].id)

(* -------------------------------- C24 ---------------------------------- *)

Again == rres[FALSE].val

(* every token of a transition target the validator or an <initial> carries *)
TargetSet(d) ==
  {Tokens(ElementTransitions(d))[i] : i \in 1..Len(Tokens(ElementTransitions(d)))}
    \cup {Tokens(InitialTransitions(d))[i] : i \in 1..Len(Tokens(InitialTransitions(d)))}

(* C24: the text to_xml writes for a parsed Document parses to a Document with   *)
(* the same state-like ids and no transition target the first one has not, and   *)
(* that validates whenever the first one does.                                   *)
C24_ValidityKept ==
  (pc = "reparsed") =>
    /\ rres[FALSE].ok
    /\ DeclaredIds(Again) = DeclaredIds(Doc)
    /\ TargetSet(Again) \subseteq TargetSet(Doc)
    /\ validate(Doc) = VOk => validate(Again) = VOk

(* the values of the text hold no quote, no "<" and no "&" *)
Plain(toks) ==
  \A i \in 1..Len(toks) :
    /\ ~Contains(toks[i].raw, AMP)
    /\ \A k \in 1..Len(toks[i].attrs) :
         ~Contains(toks[i].attrs[k][2], AMP) /\ ~Contains(toks[i].attrs[k][2], QUOTE)

(* what holds of C24: the same, for a text whose values need no escaping *)
C24_ValidityKeptWithoutMarkup ==
  (pc = "reparsed" /\ Plain(out)) =>
    /\ rres[FALSE].ok
    /\ DeclaredIds(Again) = DeclaredIds(Doc)
    /\ TargetSet(Again) \subseteq TargetSet(Doc)
    /\ validate(Doc) = VOk => validate(Again) = VOk

(* -------------------------------- C25 ---------------------------------- *)

ReparsedAgain == pc = "reparsed again"

(* C25: when the Document read back from the text of a parsed Document is       *)
(* written and read once more, the result is that same Document.                *)
C25_SecondPassChangesNothing ==
  ReparsedAgain => rres[FALSE] = pres

(* what holds of C25: the same, when the second text's values need no escaping *)
C25_SecondPassWithoutMarkup ==
  (ReparsedAgain /\ Plain(out)) => rres[FALSE] = pres

(* -------------------------------- C26 ---------------------------------- *)

(* the top-level initial names several ids, all of them declared *)
InitialNamesSeveral(d) ==
  /\ d.initial # None
  /\ Len(split_whitespace(d.initial[1])) > 1
  /\ \A k \in 1..Len(split_whitespace(d.initial[1])) :
       split_whitespace(d.initial[1])[k] \in DeclaredIds(d)

(* C26: when the earlier passes find nothing, a top-level initial that is a list *)
(* of declared ids, and not itself an id, fails with InvalidTarget of the whole  *)
(* text, while the same text is accepted as the target of a transition.          *)
C26_InitialIsNotSplit ==
  (Validated /\ IdsUnique(Doc) /\ TargetsResolve(Doc)
     /\ InitialNamesSeveral(Doc) /\ Doc.initial[1] \notin DeclaredIds(Doc))
    => vres = InvalidTarget(Doc.initial[1])

(* initial="a b" and a transition with target="a b", a and b declared *)
C26_Witness ==
  /\ Validated /\ IdsUnique(Doc) /\ TargetsResolve(Doc)
  /\ InitialNamesSeveral(Doc)
  /\ \E i \in 1..Len(ElementTransitions(Doc)) : ElementTransitions(Doc)[i].target = Doc.initial
  /\ vres = InvalidTarget(sAB)

(* -------------------------------- C27 ---------------------------------- *)

(* a target that is absent, empty or only whitespace *)
Blank(target) == target = None \/ \A i \in 1..Len(target[1]) : target[1][i] = SP

(* an InvalidTarget that is not about the top-level initial is about a word of a *)
(* target that is not blank                                                      *)
BlankTargetsPass ==
  (vres.tag = "InvalidTarget" /\ Doc.initial # Some(vres.val))
    => /\ vres.val # <<>> /\ ~Contains(vres.val, SP)
       /\ \E i \in 1..Len(ElementTransitions(Doc)) : ~Blank(ElementTransitions(Doc)[i].target)

(* a DuplicateId comes from two ids that are present *)
AbsentIdsAreNoDuplicates ==
  vres.tag = "DuplicateId" => ~IdsUnique(Doc) \/ ~Distinct(DataIds(Doc))

(* C27 as stated: a blank target never causes InvalidTarget, elements without id *)
(* are no duplicates, and (when the earlier passes find nothing) a top-level     *)
(* initial that is the empty text always fails with InvalidTarget("").           *)
C27_EmptyInitialAlwaysFails ==
  Validated =>
    /\ BlankTargetsPass
    /\ AbsentIdsAreNoDuplicates
    /\ (IdsUnique(Doc) /\ TargetsResolve(Doc) /\ Doc.initial = Some(<<>>))
         => vres = InvalidTarget(<<>>)

(* C27 amended: the empty top-level initial fails unless a state-like element    *)
(* has the empty text as its id.                                                 *)
C27_EmptyInitialFailsUnlessDeclared ==
  Validated =>
    /\ BlankTargetsPass
    /\ AbsentIdsAreNoDuplicates
    /\ (IdsUnique(Doc) /\ TargetsResolve(Doc) /\ Doc.initial = Some(<<>>))
         => vres = (IF <<>> \in DeclaredIds(Doc) THEN ByPasses(Doc, <<>>) ELSE InvalidTarget(<<>>))

(* two elements without id, an empty and a whitespace target, initial="" *)
C27_Witness ==
  /\ Validated
  /\ \E i, j \in 1..Len(Doc.states) : i # j /\ Doc.states[i].id = None /\ Doc.states[j].id = None
  /\ \E i, j \in 1..Len(ElementTransitions(Doc)) :
       /\ ElementTransitions(Doc)[i].target = Some(<<>>)
       /\ ElementTransitions(Doc)[j].target = Some(<<SP>>)
  /\ Doc.initial = Some(<<>>)
  /\ vres = InvalidTarget(<<>>)

(* a State with id="" and initial="": accepted *)
C27_DeclaredWitness ==
  /\ Validated /\ Doc.initial = Some(<<>>) /\ <<>> \in DeclaredIds(Doc) /\ vres = VOk

(* -------------------------------- C28 ---------------------------------- *)

(* the ids of the <initial> and <invoke> elements of the Document, in pre-order *)
PartIds(d) ==
  Concat(Concat(Map(LAMBDA n : IF n.kind \in {"State", "Parallel"} THEN part_ids(n) ELSE <<>>,
                    PreOrder(d.states))))

PartIdSet(d) == {PartIds(d)[i] : i \in 1..Len(PartIds(d))}

(* C28: an id of an <initial> or <invoke> is never a duplicate, neither of       *)
(* another such id nor of a state-like id, and a transition target that names    *)
(* such an id and no state-like element fails with InvalidTarget.                *)
C28_PartIdsAreOutside ==
  Validated =>
    /\ vres.tag = "DuplicateId" => ~IdsUnique(Doc) \/ ~Distinct(DataIds(Doc))
    /\ (IdsUnique(Doc) /\ \E i \in 1..Len(Tokens(ElementTransitions(Doc))) :
                            /\ Tokens(ElementTransitions(Doc))[i] \in PartIdSet(Doc)
                            /\ Tokens(ElementTransitions(Doc))[i] \notin DeclaredIds(Doc))
         => vres.tag = "InvalidTarget"

(* an <initial> and an <invoke> share the id a, and a transition targets a *)
C28_Witness ==
  /\ Validated /\ IdsUnique(Doc)
  /\ ~Distinct(PartIds(Doc))
  /\ vres = InvalidTarget(sA) /\ sA \in PartIdSet(Doc)

(* an <invoke> has the id of the State it is in: accepted *)
C28_SharedWitness ==
  /\ Validated /\ PartIdSet(Doc) \cap DeclaredIds(Doc) # {} /\ vres = VOk

(* -------------------------------- C29 ---------------------------------- *)

(* the initial attributes of the State elements of the Document, in pre-order *)
StateInitials(d) ==
  Concat(Map(LAMBDA n : IF n.kind = "State" THEN n.initial ELSE <<>>, PreOrder(d.states)))

(* C29: a Document in which some State has an initial attribute validates with   *)
(* Ok when its state-like ids are unique, its transition targets resolve, its    *)
(* top-level initial resolves and its data ids are unique, whatever the initial  *)
(* attribute names.                                                              *)
C29_StateInitialIsNotLookedUp ==
  (Validated /\ StateInitials(Doc) # <<>>
     /\ IdsUnique(Doc) /\ TargetsResolve(Doc)
     /\ RootInitialResolves(Doc) /\ Distinct(DataIds(Doc)))
    => vres = VOk

(* a State inside a State has an initial that names no element: accepted *)
C29_Witness ==
  /\ Validated /\ vres = VOk
  /\ \E i \in 1..Len(Doc.states) :
       /\ Doc.states[i].kind = "State"
       /\ \E k \in 1..Len(Doc.states[i].children) :
            /\ Doc.states[i].children[k].kind = "State"
            /\ Doc.states[i].children[k].initial # None
            /\ Doc.states[i].children[k].initial[1] \notin DeclaredIds(Doc)

(* -------------------------------- C30 ---------------------------------- *)

Compared == pc = "compared"

(* C30: parse_executables of blackjack.rs returns, for the block an <if> is in,  *)
(* the executables parse_executables of lib.rs returns: the children of the <if> *)
(* before the <else/> in then, those after it in else, each as one executable of *)
(* the variant of its own tag.                                                   *)
C30_SnapshotPartitionsAlike ==
  (Compared /\ pres.ok) => rres = Ok(FirstBlock(Doc))

(* no <if> or <foreach> of the list has a child other than <else/> *)
Childless(ch) ==
  \A i \in 1..Len(ch) :
    ch[i].tag \in {"if", "foreach"} =>
      /\ \A k \in 1..Len(ch[i].children) : ch[i].children[k].tag = "else"

(* what holds of the snapshot: it agrees with lib.rs on a block whose <if> and   *)
(* <foreach> elements have no sub-executables                                    *)
C30_SnapshotAgreesWithoutChildren ==
  (Compared /\ pres.ok /\ Childless(FirstBlockSource)) => rres = Ok(FirstBlock(Doc))

(* the snapshot replaces each child of an <if> by the executables among that     *)
(* child's own children: <if><raise/><else/><log/></if> has two empty branches   *)
C30_SnapshotLosesChildren ==
  (Compared /\ \A k \in 1..Len(FirstBlockSource[1].children) :
                  FirstBlockSource[1].children[k].children = <<>>)
    => rres.val[1].then = <<>> /\ rres.val[1].else_ = <<>>

====
